---- MODULE Spec2Model ----
(***************************************************************************)
(* Runtime-support bridge of the LLVM compiler back end                    *)
(* (src/compiler_llvm/runtime_support_llvm.cc): the entry points that      *)
(* compiled code calls for exception throwing and catch-block search, type *)
(* checks, field and method resolution, locks, the suspend check, JNI      *)
(* references, and the name-to-address lookup of the entry points          *)
(* themselves.                                                             *)
(*                                                                         *)
(* Object references are integers, NULL is 0.  Classes are named by their  *)
(* descriptors.  An exception object is a record [ref, cls, msg]; msg is a *)
(* sequence of strings, the pieces of the formatted message in order.      *)
(***************************************************************************)
EXTENDS Integers, Sequences, FiniteSets, TLC

VARIABLES
  exception,         \* Thread::exception_: each worker's pending-exception slot
  stack_begin,       \* Thread::stack_begin_: hard limit of each worker's stack
  stack_end,         \* Thread::stack_end_: soft limit of each worker's stack
  pc,                \* each worker's position inside an entry point, and its locals
  exception_table,   \* the code item of current_method: its catch handlers
  resolved_types,    \* dex cache: type index -> resolved class, or NoClass
  dex_fields,        \* the caller's constant pool: what each field index names
  resolved_fields,   \* dex cache: (referrer, field index) -> field, or NoField
  storage,           \* field storage: (field, receiver) -> value
  resolved_methods,  \* dex cache: (referrer, method index) -> method, or NoMethod
  names,             \* art_find_compiler_runtime_func: the sorted helper names
  tab,               \* art_find_runtime_support_func: the entry-point table
  live,              \* the workers that run compiled code
  monitors,          \* Object::monitor_: each object's lock, the holds of each worker
  suspend_all,       \* ThreadList: a suspend-all request is pending
  aborted,           \* the process has been aborted (LOG(FATAL), failed CHECK)
  last               \* the last entry-point call: its arguments and its result

vars == <<exception, stack_begin, stack_end, pc, exception_table, resolved_types,
          dex_fields, resolved_fields, storage, resolved_methods, names, tab,
          live, monitors, suspend_all, aborted, last>>

----------------------------------------------------------------------------
(* Bounds of the model.                                                    *)

MaxStackBegin == 1
MaxValue == 1
MaxHandlers == 3
MaxNames == 2
MaxHolds == 2

----------------------------------------------------------------------------
(* The managed world the bridge works on.                                  *)

NULL == 0

Threads == {"t1", "t2"}

Referrers == {"m1"}

\* Class descriptors.
jlObject == "Ljava/lang/Object;"
jlString == "Ljava/lang/String;"
jlInteger == "Ljava/lang/Integer;"
jlObjectArray == "[Ljava/lang/Object;"
jlStringArray == "[Ljava/lang/String;"
jlThrowable == "Ljava/lang/Throwable;"
jlException == "Ljava/lang/Exception;"
jlRuntimeException == "Ljava/lang/RuntimeException;"
jlError == "Ljava/lang/Error;"
jlArithmeticException == "Ljava/lang/ArithmeticException;"
jlArrayIndexOutOfBoundsException == "Ljava/lang/ArrayIndexOutOfBoundsException;"
jlNoSuchMethodError == "Ljava/lang/NoSuchMethodError;"
jlNoSuchFieldError == "Ljava/lang/NoSuchFieldError;"
jlNullPointerException == "Ljava/lang/NullPointerException;"
jlStackOverflowError == "Ljava/lang/StackOverflowError;"
jlClassCastException == "Ljava/lang/ClassCastException;"
jlArrayStoreException == "Ljava/lang/ArrayStoreException;"
jlIncompatibleClassChangeError == "Ljava/lang/IncompatibleClassChangeError;"
jlIllegalMonitorStateException == "Ljava/lang/IllegalMonitorStateException;"
NoClass == ""

Classes ==
  {jlObject, jlString, jlInteger, jlObjectArray, jlStringArray, jlThrowable,
   jlException, jlRuntimeException, jlError, jlArithmeticException,
   jlArrayIndexOutOfBoundsException, jlNoSuchMethodError, jlNoSuchFieldError,
   jlNullPointerException, jlStackOverflowError, jlClassCastException,
   jlArrayStoreException, jlIncompatibleClassChangeError}

\* Class::GetSuperClass; arrays and java.lang.Object have java.lang.Object.
SuperClass(c) ==
  CASE c \in {jlString, jlInteger, jlThrowable, jlObjectArray, jlStringArray} -> jlObject
    [] c \in {jlException, jlError} -> jlThrowable
    [] c = jlRuntimeException -> jlException
    [] c \in {jlArithmeticException, jlArrayIndexOutOfBoundsException,
              jlNullPointerException, jlClassCastException,
              jlArrayStoreException,
              jlIllegalMonitorStateException} -> jlRuntimeException
    [] c \in {jlNoSuchMethodError, jlNoSuchFieldError, jlStackOverflowError,
              jlIncompatibleClassChangeError} -> jlError
    [] OTHER -> jlObject

\* Class::GetComponentType: NoClass for a class that is no array.
GetComponentType(c) ==
  CASE c = jlObjectArray -> jlObject
    [] c = jlStringArray -> jlString
    [] OTHER -> NoClass

RECURSIVE IsSubClass(_, _)
\* Class::IsSubClass: klass is on the superclass chain of c.
IsSubClass(c, klass) ==
  IF c = klass THEN TRUE
  ELSE IF c = jlObject THEN FALSE
  ELSE IsSubClass(SuperClass(c), klass)

\* Class::IsAssignableFrom: reflexive, up the superclass chain, covariant for
\* arrays.
IsAssignableFrom(dest, src) ==
  IF dest = src THEN TRUE
  ELSE IF dest = jlObject THEN TRUE
  ELSE IF GetComponentType(dest) # NoClass
    THEN GetComponentType(src) # NoClass
         /\ IsSubClass(GetComponentType(src), GetComponentType(dest))
  ELSE GetComponentType(src) = NoClass /\ IsSubClass(src, dest)

\* PrettyDescriptor: "Ljava/lang/String;" -> "java.lang.String",
\* "[Ljava/lang/String;" -> "java.lang.String[]".
PrettyDescriptor(c) ==
  CASE c = jlObject -> "java.lang.Object"
    [] c = jlString -> "java.lang.String"
    [] c = jlInteger -> "java.lang.Integer"
    [] c = jlObjectArray -> "java.lang.Object[]"
    [] c = jlStringArray -> "java.lang.String[]"
    [] OTHER -> c

\* The heap: object references and Object::GetClass.
StringObj == 1
IntegerObj == 2
ObjectArrayObj == 3
StringArrayObj == 4
RuntimeExceptionObj == 5
ErrorObj == 6
ThrowableObj == 7
NewObj == 8

GetClass(obj) ==
  CASE obj = StringObj -> jlString
    [] obj = IntegerObj -> jlInteger
    [] obj = ObjectArrayObj -> jlObjectArray
    [] obj = StringArrayObj -> jlStringArray
    [] obj = RuntimeExceptionObj -> jlRuntimeException
    [] obj = ErrorObj -> jlError
    [] obj = ThrowableObj -> jlThrowable
    [] OTHER -> NoClass

\* printf's %d for the numbers the model formats.
FormatD(n) ==
  CASE n = -1 -> "-1"
    [] n = 0 -> "0"
    [] n = 1 -> "1"
    [] n = 2 -> "2"
    [] OTHER -> "?"

----------------------------------------------------------------------------
(* Thread: the pending-exception slot.                                     *)

NoException == [ref |-> NULL, cls |-> NoClass, msg |-> <<>>]

\* Thread::IsExceptionPending
IsExceptionPending(t) == exception[t].ref # NULL

\* Thread::ThrowNewException(descriptor, msg): a new exception object of the
\* class is constructed and becomes the pending exception.
ThrowNewException(descriptor, msg) ==
  [ref |-> NewObj, cls |-> descriptor, msg |-> msg]

\* Thread::SetException(throwable): the object itself becomes pending.
SetException(obj) ==
  [ref |-> obj, cls |-> GetClass(obj), msg |-> <<>>]

----------------------------------------------------------------------------
(* What every entry point records when it returns.                         *)

NoMethod == [name |-> "", cls |-> NoClass]

NoField == [id |-> -1, is_static |-> FALSE, is_primitive |-> FALSE, size |-> 0]

\* A worker in no entry point.  Inside one, at is the call it is in; before,
\* end_before, end_during, obj, idx, referrer and arg are what the entry point
\* was given and found, field and method its local variables of these names.
Idle ==
  [at |-> "idle", before |-> NoException, end_before |-> 0, end_during |-> 0,
   obj |-> NULL, idx |-> 0, referrer |-> "", arg |-> 0, field |-> NoField,
   method |-> NoMethod]

\* A worker can enter the bridge: the process runs and the worker is in no
\* other entry point.
Callable(t) == ~aborted /\ t \in live /\ pc[t].at = "idle"

\* before: the worker's pending-exception slot as the call found it, kept for
\* the entry points of the exception and type-check sections.
Returned(op, t) ==
  [op |-> op, t |-> t, ret |-> 0, path |-> "", idx |-> 0, obj |-> NULL,
   arg |-> 0, dest |-> NoClass, src |-> NoClass, before |-> exception[t],
   referrer |-> "", kind |-> "", method |-> NoMethod, name |-> <<>>,
   end_before |-> stack_end[t], end_during |-> stack_end[t], thread |-> ""]

NoCall ==
  [op |-> "", t |-> "t1", ret |-> 0, path |-> "", idx |-> 0, obj |-> NULL,
   arg |-> 0, dest |-> NoClass, src |-> NoClass, before |-> NoException,
   referrer |-> "", kind |-> "", method |-> NoMethod, name |-> <<>>,
   end_before |-> 0, end_during |-> 0, thread |-> ""]

stackVars == <<stack_begin, stack_end, pc>>
dexVars == <<exception_table, resolved_types, dex_fields, names, tab>>
heapVars == <<resolved_fields, storage, resolved_methods>>
syncVars == <<live, monitors, suspend_all>>

----------------------------------------------------------------------------
(* Exception: the throw entry points.                                      *)

\* The arguments compiled code passes in the model.
ArrayLengths == {0, 1}
ArrayIndexes == {-1, 1}
MethodIdx == {0, 1}
Throwables == {NULL, RuntimeExceptionObj, ErrorObj, ThrowableObj}

\* bool art_is_exception_pending_from_code()
art_is_exception_pending_from_code(t) ==
  /\ Callable(t)
  /\ last' = [Returned("art_is_exception_pending_from_code", t) EXCEPT
                !.ret = IF IsExceptionPending(t) THEN 1 ELSE 0]
  /\ UNCHANGED <<exception, stackVars, dexVars, syncVars, heapVars, aborted>>

\* void art_throw_div_zero_from_code()
art_throw_div_zero_from_code(t) ==
  /\ Callable(t)
  /\ exception' = [exception EXCEPT ![t] =
                     ThrowNewException(jlArithmeticException, <<"divide by zero">>)]
  /\ last' = Returned("art_throw_div_zero_from_code", t)
  /\ UNCHANGED <<stackVars, dexVars, syncVars, heapVars, aborted>>

\* void art_throw_array_bounds_from_code(int32_t length, int32_t index)
art_throw_array_bounds_from_code(t, length, index) ==
  /\ Callable(t)
  /\ exception' = [exception EXCEPT ![t] =
                     ThrowNewException(jlArrayIndexOutOfBoundsException,
                       <<"length=", FormatD(length), "; index=", FormatD(index)>>)]
  /\ last' = [Returned("art_throw_array_bounds_from_code", t) EXCEPT
                !.arg = length, !.idx = index]
  /\ UNCHANGED <<stackVars, dexVars, syncVars, heapVars, aborted>>

\* MethodNameFromIndex(method, method_idx, VERIFY_ERROR_REF_METHOD, false)
MethodNameFromIndex(method, method_idx) ==
  <<method, "#", FormatD(method_idx)>>

\* void art_throw_no_such_method_from_code(int32_t method_idx); method is the
\* caller found in the frame below the top of the worker's stack.
art_throw_no_such_method_from_code(t, method, method_idx) ==
  /\ Callable(t)
  /\ exception' = [exception EXCEPT ![t] =
                     ThrowNewException(jlNoSuchMethodError,
                                       MethodNameFromIndex(method, method_idx))]
  /\ last' = [Returned("art_throw_no_such_method_from_code", t) EXCEPT
                !.idx = method_idx]
  /\ UNCHANGED <<stackVars, dexVars, syncVars, heapVars, aborted>>

\* void art_throw_null_pointer_exception_from_code()
art_throw_null_pointer_exception_from_code(t) ==
  /\ Callable(t)
  /\ exception' = [exception EXCEPT ![t] =
                     ThrowNewException(jlNullPointerException, <<>>)]
  /\ last' = Returned("art_throw_null_pointer_exception_from_code", t)
  /\ UNCHANGED <<stackVars, dexVars, syncVars, heapVars, aborted>>

\* art_throw_exception_from_code without the NULL test of line 131.
art_throw_exception_from_code_NoNullCheck(t, obj) ==
  /\ Callable(t)
  /\ exception' = [exception EXCEPT ![t] = SetException(obj)]
  /\ last' = [Returned("art_throw_exception_from_code", t) EXCEPT !.obj = obj]
  /\ UNCHANGED <<stackVars, dexVars, syncVars, heapVars, aborted>>

\* void art_throw_exception_from_code(Object* exception)
art_throw_exception_from_code(t, obj) ==
  /\ Callable(t)
  /\ exception' = [exception EXCEPT ![t] =
                     IF obj = NULL
                       THEN ThrowNewException(jlNullPointerException,
                                              <<"throw with null exception">>)
                       ELSE SetException(obj)]
  /\ last' = [Returned("art_throw_exception_from_code", t) EXCEPT !.obj = obj]
  /\ UNCHANGED <<stackVars, dexVars, syncVars, heapVars, aborted>>

\* Thread: the reserve between the hard limit and the default soft limit.
kStackOverflowReservedBytes == 1

\* Thread::SetStackEndForStackOverflow: the whole stack becomes usable.
SetStackEndForStackOverflow(t) == stack_begin[t]

\* Thread::ResetDefaultStackEnd: back to the default soft limit.
ResetDefaultStackEnd(t) == stack_begin[t] + kStackOverflowReservedBytes

\* art_throw_stack_overflow_from_code, line 121: the stack end is moved.
ThrowStackOverflow_SetStackEnd(t) ==
  /\ Callable(t)
  /\ stack_end' = [stack_end EXCEPT ![t] = SetStackEndForStackOverflow(t)]
  /\ pc' = [pc EXCEPT ![t] = [Idle EXCEPT !.at = "throw",
                                            !.before = exception[t],
                                            !.end_before = stack_end[t],
                                            !.end_during = stack_end[t]]]
  /\ UNCHANGED <<exception, stack_begin, dexVars, syncVars, heapVars, aborted, last>>

\* art_throw_stack_overflow_from_code, lines 122-125: the exception object is
\* constructed on the stack as it is now and becomes pending.
ThrowStackOverflow_Throw(t) ==
  /\ ~aborted
  /\ pc[t].at = "throw"
  /\ exception' = [exception EXCEPT ![t] =
                     ThrowNewException(jlStackOverflowError,
                       <<"stack size ", "kb; default stack size: ", "kb">>)]
  /\ pc' = [pc EXCEPT ![t] = [pc[t] EXCEPT !.at = "reset",
                                           !.end_during = stack_end[t]]]
  /\ UNCHANGED <<stack_begin, stack_end, dexVars, syncVars, heapVars, aborted, last>>

\* ThrowStackOverflow_Reset with line 126 left out.
ThrowStackOverflow_NoReset(t) ==
  /\ ~aborted
  /\ pc[t].at = "reset"
  /\ pc' = [pc EXCEPT ![t] = Idle]
  /\ last' = [Returned("art_throw_stack_overflow_from_code", t) EXCEPT
                !.before = pc[t].before,
                !.end_before = pc[t].end_before,
                !.end_during = pc[t].end_during]
  /\ UNCHANGED <<exception, stack_begin, stack_end, dexVars, syncVars, heapVars, aborted>>

\* art_throw_stack_overflow_from_code, line 126, and the return.
ThrowStackOverflow_Reset(t) ==
  /\ ~aborted
  /\ pc[t].at = "reset"
  /\ stack_end' = [stack_end EXCEPT ![t] = ResetDefaultStackEnd(t)]
  /\ pc' = [pc EXCEPT ![t] = Idle]
  /\ last' = [Returned("art_throw_stack_overflow_from_code", t) EXCEPT
                !.before = pc[t].before,
                !.end_before = pc[t].end_before,
                !.end_during = pc[t].end_during]
  /\ UNCHANGED <<exception, stack_begin, dexVars, syncVars, heapVars, aborted>>

\* void art_throw_stack_overflow_from_code()
art_throw_stack_overflow_from_code(t) ==
  \/ ThrowStackOverflow_SetStackEnd(t)
  \/ ThrowStackOverflow_Throw(t)
  \/ ThrowStackOverflow_Reset(t)

----------------------------------------------------------------------------
(* Exception: catch-block search.                                          *)

\* DexFile::kDexNoIndex16: the handler type index of a catch-all handler.
kDexNoIndex16 == 65535

TypeIdx == {0, 1}

\* The class each type index of the method's dex file names.
TypeDescriptor(type_idx) ==
  IF type_idx = 0 THEN jlRuntimeException ELSE jlError

\* Program locations and the address ranges [lo, hi) of the try blocks.
DexPcs == 0 .. 1
TryRanges == {<<0, 1>>, <<0, 2>>}

\* CatchHandlerIterator(code_item, dex_pc): the handlers whose range covers
\* dex_pc, in the order of the table.
CatchHandlerIterator(code_item, dex_pc) ==
  SelectSeq(code_item, LAMBDA h : h.lo <= dex_pc /\ dex_pc < h.hi)

RECURSIVE FindCatchBlockLoop_NoCount(_, _, _)
\* FindCatchBlockLoop with line 160 left out of the unresolved branch.
FindCatchBlockLoop_NoCount(it, iter_index, exception_type) ==
  IF it = <<>> THEN -1
  ELSE LET iter_type_idx == Head(it).type_idx IN
    IF iter_type_idx = kDexNoIndex16 THEN iter_index
    ELSE LET iter_exception_type == resolved_types[iter_type_idx] IN
      IF iter_exception_type = NoClass
        THEN FindCatchBlockLoop_NoCount(Tail(it), iter_index, exception_type)
      ELSE IF IsAssignableFrom(iter_exception_type, exception_type)
        THEN iter_index
      ELSE FindCatchBlockLoop_NoCount(Tail(it), iter_index + 1, exception_type)

RECURSIVE FindCatchBlockLoop_Stop(_, _, _)
\* FindCatchBlockLoop with a break in the unresolved branch, after line 155.
FindCatchBlockLoop_Stop(it, iter_index, exception_type) ==
  IF it = <<>> THEN -1
  ELSE LET iter_type_idx == Head(it).type_idx IN
    IF iter_type_idx = kDexNoIndex16 THEN iter_index
    ELSE LET iter_exception_type == resolved_types[iter_type_idx] IN
      IF iter_exception_type = NoClass
        THEN -1
      ELSE IF IsAssignableFrom(iter_exception_type, exception_type)
        THEN iter_index
      ELSE FindCatchBlockLoop_Stop(Tail(it), iter_index + 1, exception_type)

RECURSIVE FindCatchBlockLoop(_, _, _)
\* art_find_catch_block_from_code, lines 143-163: the loop over the handlers
\* still to visit (it), with the running iter_index.
FindCatchBlockLoop(it, iter_index, exception_type) ==
  IF it = <<>> THEN -1
  ELSE LET iter_type_idx == Head(it).type_idx IN
    IF iter_type_idx = kDexNoIndex16 THEN iter_index
    ELSE LET iter_exception_type == resolved_types[iter_type_idx] IN
      IF iter_exception_type = NoClass
        THEN FindCatchBlockLoop(Tail(it), iter_index + 1, exception_type)
      ELSE IF IsAssignableFrom(iter_exception_type, exception_type)
        THEN iter_index
      ELSE FindCatchBlockLoop(Tail(it), iter_index + 1, exception_type)

\* int32_t art_find_catch_block_from_code(Method* current_method, int32_t dex_pc).
\* Compiled code calls it from a landing pad, with an exception pending: line
\* 140 reads the class of the pending exception.
art_find_catch_block_from_code(t, dex_pc) ==
  /\ Callable(t)
  /\ IsExceptionPending(t)
  /\ LET exception_type == exception[t].cls
         it == CatchHandlerIterator(exception_table, dex_pc)
     IN last' = [Returned("art_find_catch_block_from_code", t) EXCEPT
                   !.idx = dex_pc,
                   !.ret = FindCatchBlockLoop(it, 0, exception_type)]
  /\ UNCHANGED <<exception, stackVars, dexVars, syncVars, heapVars, aborted>>

----------------------------------------------------------------------------
(* Type checking, in the nature of casting.                                *)

CastTypes == {jlObject, jlString, jlInteger, jlObjectArray, jlStringArray}
Elements == {NULL, StringObj, IntegerObj}
Arrays == {ObjectArrayObj, StringArrayObj}

\* art_is_assignable_from_code with the throw of art_check_cast_from_code,
\* lines 444-447.
art_is_assignable_from_code_Throwing(t, dest_type, src_type) ==
  /\ Callable(t)
  /\ exception' =
       IF ~IsAssignableFrom(dest_type, src_type)
         THEN [exception EXCEPT ![t] =
                 ThrowNewException(jlClassCastException,
                   <<PrettyDescriptor(src_type), " cannot be cast to ",
                     PrettyDescriptor(dest_type)>>)]
         ELSE exception
  /\ last' = [Returned("art_is_assignable_from_code", t) EXCEPT
                !.dest = dest_type, !.src = src_type,
                !.ret = IF IsAssignableFrom(dest_type, src_type) THEN 1 ELSE 0]
  /\ UNCHANGED <<stackVars, dexVars, syncVars, heapVars, aborted>>

\* int32_t art_is_assignable_from_code(const Class* dest_type, const Class* src_type)
art_is_assignable_from_code(t, dest_type, src_type) ==
  /\ Callable(t)
  /\ last' = [Returned("art_is_assignable_from_code", t) EXCEPT
                !.dest = dest_type, !.src = src_type,
                !.ret = IF IsAssignableFrom(dest_type, src_type) THEN 1 ELSE 0]
  /\ UNCHANGED <<exception, stackVars, dexVars, syncVars, heapVars, aborted>>

\* art_check_cast_from_code asking the assignability the other way round.
art_check_cast_from_code_Swapped(t, dest_type, src_type) ==
  /\ Callable(t)
  /\ exception' =
       IF ~IsAssignableFrom(src_type, dest_type)
         THEN [exception EXCEPT ![t] =
                 ThrowNewException(jlClassCastException,
                   <<PrettyDescriptor(dest_type), " cannot be cast to ",
                     PrettyDescriptor(src_type)>>)]
         ELSE exception
  /\ last' = [Returned("art_check_cast_from_code", t) EXCEPT
                !.dest = dest_type, !.src = src_type]
  /\ UNCHANGED <<stackVars, dexVars, syncVars, heapVars, aborted>>

\* art_check_put_array_element_from_code testing the element against the
\* array's class instead of its component type.
art_check_put_array_element_from_code_ArrayClass(t, element, array) ==
  /\ Callable(t)
  /\ exception' =
       IF element = NULL THEN exception
       ELSE LET array_class == GetClass(array)
                element_class == GetClass(element)
            IN IF ~IsAssignableFrom(array_class, element_class)
                 THEN [exception EXCEPT ![t] =
                         ThrowNewException(jlArrayStoreException,
                           <<PrettyDescriptor(element_class),
                             " cannot be stored in an array of type ",
                             PrettyDescriptor(array_class)>>)]
                 ELSE exception
  /\ last' = [Returned("art_check_put_array_element_from_code", t) EXCEPT
                !.obj = element, !.arg = array]
  /\ UNCHANGED <<stackVars, dexVars, syncVars, heapVars, aborted>>

\* void art_check_cast_from_code(const Class* dest_type, const Class* src_type)
art_check_cast_from_code(t, dest_type, src_type) ==
  /\ Callable(t)
  /\ exception' =
       IF ~IsAssignableFrom(dest_type, src_type)
         THEN [exception EXCEPT ![t] =
                 ThrowNewException(jlClassCastException,
                   <<PrettyDescriptor(dest_type), " cannot be cast to ",
                     PrettyDescriptor(src_type)>>)]
         ELSE exception
  /\ last' = [Returned("art_check_cast_from_code", t) EXCEPT
                !.dest = dest_type, !.src = src_type]
  /\ UNCHANGED <<stackVars, dexVars, syncVars, heapVars, aborted>>

\* void art_check_put_array_element_from_code(const Object* element,
\*                                            const Object* array)
art_check_put_array_element_from_code(t, element, array) ==
  /\ Callable(t)
  /\ exception' =
       IF element = NULL THEN exception
       ELSE LET array_class == GetClass(array)
                component_type == GetComponentType(array_class)
                element_class == GetClass(element)
            IN IF ~IsAssignableFrom(component_type, element_class)
                 THEN [exception EXCEPT ![t] =
                         ThrowNewException(jlArrayStoreException,
                           <<PrettyDescriptor(element_class),
                             " cannot be stored in an array of type ",
                             PrettyDescriptor(array_class)>>)]
                 ELSE exception
  /\ last' = [Returned("art_check_put_array_element_from_code", t) EXCEPT
                !.obj = element, !.arg = array]
  /\ UNCHANGED <<stackVars, dexVars, syncVars, heapVars, aborted>>

----------------------------------------------------------------------------
(* Object space: field access.                                             *)

FieldIdx == {0, 1}
FieldReceivers == {StringObj, IntegerObj}
Values == 0 .. MaxValue

\* The fields a field index can name.  Index 0: static or instance, and 32-bit
\* primitive, 64-bit primitive or reference (sizeof(Object*) is 4).  Index 1:
\* a static 32-bit primitive.
FieldsOf(field_idx) ==
  IF field_idx = 0
    THEN {[id |-> field_idx, is_static |-> s, is_primitive |-> k[1], size |-> k[2]] :
            s \in BOOLEAN, k \in {<<TRUE, 4>>, <<TRUE, 8>>, <<FALSE, 4>>}}
    ELSE {[id |-> field_idx, is_static |-> TRUE, is_primitive |-> TRUE, size |-> 4]}

\* FindFieldFast(field_idx, referrer, is_primitive, is_set, expected_size):
\* the dex cache's field, when it is there and of the expected type; it throws
\* nothing and resolves nothing.
FindFieldFast(field_idx, referrer, is_primitive, is_set, expected_size) ==
  LET resolved_field == resolved_fields[<<referrer, field_idx>>] IN
  IF resolved_field = NoField THEN NoField
  ELSE IF resolved_field.is_primitive # is_primitive
          \/ resolved_field.size # expected_size THEN NoField
  ELSE resolved_field

FieldNameFromIndex(referrer, field_idx) ==
  <<referrer, ".", FormatD(field_idx)>>

\* FindFieldFromCode(field_idx, referrer, self, is_static, is_primitive, is_set,
\* expected_size): full resolution.  The field, or no field and the exception
\* thrown; cache is the dex cache as the call leaves it, with a field that
\* resolved entered for the index.
FindFieldFromCode(field_idx, referrer, is_static, is_primitive, is_set, expected_size) ==
  LET resolved_field == dex_fields[<<referrer, field_idx>>] IN
  IF resolved_field = NoField
    THEN [field |-> NoField, cache |-> resolved_fields,
          thrown |-> ThrowNewException(jlNoSuchFieldError,
                                       FieldNameFromIndex(referrer, field_idx))]
  ELSE IF resolved_field.is_static # is_static
    THEN [field |-> NoField, cache |-> resolved_fields,
          thrown |-> ThrowNewException(jlIncompatibleClassChangeError,
                                       FieldNameFromIndex(referrer, field_idx))]
  ELSE IF resolved_field.is_primitive # is_primitive
          \/ resolved_field.size # expected_size
    THEN [field |-> NoField, cache |-> resolved_fields,
          thrown |-> ThrowNewException(jlNoSuchFieldError,
                                       FieldNameFromIndex(referrer, field_idx))]
  ELSE [field |-> resolved_field,
        cache |-> [resolved_fields EXCEPT ![<<referrer, field_idx>>] = resolved_field],
        thrown |-> NoException]

\* Where Field::Set32/Set64/SetObj and Get32/Get64/GetObj access the field: a
\* static field has one fixed location, an instance field one in each receiver.
Location(field, obj) ==
  IF field.is_static THEN <<field.id, NULL>> ELSE <<field.id, obj>>

\* An instance field accessed through a null receiver: the access faults.
NullReceiver(field, obj) == ~field.is_static /\ obj = NULL

\* The body the six art_set*_from_code entry points share, lines 252-295 and
\* 336-382: fast is the result of their FindFieldFast call, slow that of their
\* FindFieldFromCode call, made only when fast is no field.
SetFromCode(op, t, field_idx, referrer, obj, new_value, fast, slow) ==
  /\ Callable(t)
  /\ LET field == IF fast # NoField THEN fast ELSE slow.field
         path == IF fast # NoField THEN "fast" ELSE "slow"
         cached == IF fast # NoField THEN resolved_fields ELSE slow.cache
         ret == [Returned(op, t) EXCEPT !.idx = field_idx, !.referrer = referrer,
                                        !.obj = obj, !.arg = new_value,
                                        !.before = NoException]
     IN IF field # NoField
          THEN IF NullReceiver(field, obj)
                 THEN /\ aborted' = TRUE
                      /\ resolved_fields' = cached
                      /\ UNCHANGED <<exception, storage, last>>
                 ELSE /\ storage' = [storage EXCEPT ![Location(field, obj)] = new_value]
                      /\ resolved_fields' = cached
                      /\ last' = [ret EXCEPT !.path = path, !.ret = 0]
                      /\ UNCHANGED <<exception, aborted>>
          ELSE /\ exception' = [exception EXCEPT ![t] = slow.thrown]
               /\ last' = [ret EXCEPT !.path = "fail", !.ret = -1]
               /\ UNCHANGED <<resolved_fields, storage, aborted>>
  /\ UNCHANGED <<stackVars, dexVars, syncVars, resolved_methods>>

\* The body the six art_get*_from_code entry points share, lines 297-334 and
\* 384-421.
GetFromCode(op, t, field_idx, referrer, obj, fast, slow) ==
  /\ Callable(t)
  /\ LET field == IF fast # NoField THEN fast ELSE slow.field
         path == IF fast # NoField THEN "fast" ELSE "slow"
         cached == IF fast # NoField THEN resolved_fields ELSE slow.cache
         ret == [Returned(op, t) EXCEPT !.idx = field_idx, !.referrer = referrer,
                                        !.obj = obj, !.before = NoException]
     IN IF field # NoField
          THEN IF NullReceiver(field, obj)
                 THEN /\ aborted' = TRUE
                      /\ resolved_fields' = cached
                      /\ UNCHANGED <<exception, last>>
                 ELSE /\ resolved_fields' = cached
                      /\ last' = [ret EXCEPT !.path = path,
                                             !.ret = storage[Location(field, obj)]]
                      /\ UNCHANGED <<exception, aborted>>
          ELSE /\ exception' = [exception EXCEPT ![t] = slow.thrown]
               /\ last' = [ret EXCEPT !.path = "fail", !.ret = 0]
               /\ UNCHANGED <<resolved_fields, aborted>>
  /\ UNCHANGED <<stackVars, dexVars, syncVars, storage, resolved_methods>>

art_set32_static_from_code(t, field_idx, referrer, new_value) ==
  SetFromCode("art_set32_static_from_code", t, field_idx, referrer, NULL, new_value,
              FindFieldFast(field_idx, referrer, TRUE, TRUE, 4),
              FindFieldFromCode(field_idx, referrer, TRUE, TRUE, TRUE, 4))

art_set64_static_from_code(t, field_idx, referrer, new_value) ==
  SetFromCode("art_set64_static_from_code", t, field_idx, referrer, NULL, new_value,
              FindFieldFast(field_idx, referrer, TRUE, TRUE, 8),
              FindFieldFromCode(field_idx, referrer, TRUE, TRUE, TRUE, 8))

art_set_obj_static_from_code(t, field_idx, referrer, new_value) ==
  SetFromCode("art_set_obj_static_from_code", t, field_idx, referrer, NULL, new_value,
              FindFieldFast(field_idx, referrer, FALSE, TRUE, 4),
              FindFieldFromCode(field_idx, referrer, TRUE, FALSE, TRUE, 4))

art_get32_static_from_code(t, field_idx, referrer) ==
  GetFromCode("art_get32_static_from_code", t, field_idx, referrer, NULL,
              FindFieldFast(field_idx, referrer, TRUE, FALSE, 4),
              FindFieldFromCode(field_idx, referrer, TRUE, TRUE, FALSE, 4))

art_get64_static_from_code(t, field_idx, referrer) ==
  GetFromCode("art_get64_static_from_code", t, field_idx, referrer, NULL,
              FindFieldFast(field_idx, referrer, TRUE, FALSE, 8),
              FindFieldFromCode(field_idx, referrer, TRUE, TRUE, FALSE, 8))

art_get_obj_static_from_code(t, field_idx, referrer) ==
  GetFromCode("art_get_obj_static_from_code", t, field_idx, referrer, NULL,
              FindFieldFast(field_idx, referrer, FALSE, FALSE, 4),
              FindFieldFromCode(field_idx, referrer, TRUE, FALSE, FALSE, 4))

\* art_set32_instance_from_code with the slow path of art_set32_static_from_code.
art_set32_instance_from_code_Static(t, field_idx, referrer, obj, new_value) ==
  SetFromCode("art_set32_instance_from_code", t, field_idx, referrer, obj, new_value,
              FindFieldFast(field_idx, referrer, TRUE, TRUE, 4),
              FindFieldFromCode(field_idx, referrer, TRUE, TRUE, TRUE, 4))

art_set32_instance_from_code(t, field_idx, referrer, obj, new_value) ==
  SetFromCode("art_set32_instance_from_code", t, field_idx, referrer, obj, new_value,
              FindFieldFast(field_idx, referrer, TRUE, TRUE, 4),
              FindFieldFromCode(field_idx, referrer, FALSE, TRUE, TRUE, 4))

art_set64_instance_from_code(t, field_idx, referrer, obj, new_value) ==
  SetFromCode("art_set64_instance_from_code", t, field_idx, referrer, obj, new_value,
              FindFieldFast(field_idx, referrer, TRUE, TRUE, 8),
              FindFieldFromCode(field_idx, referrer, FALSE, TRUE, TRUE, 8))

art_set_obj_instance_from_code(t, field_idx, referrer, obj, new_value) ==
  SetFromCode("art_set_obj_instance_from_code", t, field_idx, referrer, obj, new_value,
              FindFieldFast(field_idx, referrer, FALSE, TRUE, 4),
              FindFieldFromCode(field_idx, referrer, FALSE, FALSE, TRUE, 4))

\* art_get32_instance_from_code with the fast lookup of
\* art_get64_instance_from_code.
art_get32_instance_from_code_Wide(t, field_idx, referrer, obj) ==
  GetFromCode("art_get32_instance_from_code", t, field_idx, referrer, obj,
              FindFieldFast(field_idx, referrer, TRUE, FALSE, 8),
              FindFieldFromCode(field_idx, referrer, FALSE, TRUE, FALSE, 4))

art_get32_instance_from_code(t, field_idx, referrer, obj) ==
  GetFromCode("art_get32_instance_from_code", t, field_idx, referrer, obj,
              FindFieldFast(field_idx, referrer, TRUE, FALSE, 4),
              FindFieldFromCode(field_idx, referrer, FALSE, TRUE, FALSE, 4))

art_get64_instance_from_code(t, field_idx, referrer, obj) ==
  GetFromCode("art_get64_instance_from_code", t, field_idx, referrer, obj,
              FindFieldFast(field_idx, referrer, TRUE, FALSE, 8),
              FindFieldFromCode(field_idx, referrer, FALSE, TRUE, FALSE, 8))

art_get_obj_instance_from_code(t, field_idx, referrer, obj) ==
  GetFromCode("art_get_obj_instance_from_code", t, field_idx, referrer, obj,
              FindFieldFast(field_idx, referrer, FALSE, FALSE, 4),
              FindFieldFromCode(field_idx, referrer, FALSE, FALSE, FALSE, 4))

----------------------------------------------------------------------------
(* Object space: method resolution.                                        *)

InvokeTypes == {"kInterface", "kVirtual", "kSuper"}
Receivers == {NULL, StringObj, IntegerObj}

\* The method each method index of the caller's dex file names: index 0 names
\* a method, index 1 names none.
DexMethod(caller_method, method_idx) ==
  IF method_idx = 0 THEN [name |-> "toString", cls |-> jlObject] ELSE NoMethod

\* The class that declares the caller.
DeclaringClass(caller_method) == jlString

\* The method the call runs: the receiver's implementation for an interface or
\* virtual call, the implementation of the caller's superclass for a super call.
Dispatch(resolved_method, this_object, caller_method, type) ==
  IF type = "kSuper"
    THEN [name |-> resolved_method.name,
          cls |-> SuperClass(DeclaringClass(caller_method))]
    ELSE [name |-> resolved_method.name, cls |-> GetClass(this_object)]

\* FindMethodFast returning the cached method without dispatching on the
\* receiver.
FindMethodFast_Declared(method_idx, this_object, caller_method, access_check, type) ==
  LET resolved_method == resolved_methods[<<caller_method, method_idx>>] IN
  IF this_object = NULL \/ resolved_method = NoMethod THEN NoMethod
  ELSE resolved_method

\* FindMethodFast(method_idx, this_object, caller_method, access_check, type):
\* from the dex cache alone; it throws nothing.
FindMethodFast(method_idx, this_object, caller_method, access_check, type) ==
  LET resolved_method == resolved_methods[<<caller_method, method_idx>>] IN
  IF this_object = NULL \/ resolved_method = NoMethod THEN NoMethod
  ELSE Dispatch(resolved_method, this_object, caller_method, type)

\* FindMethodFromCode(method_idx, this_object, caller_method, self, access_check,
\* type): full resolution.  The method, or no method and the exception thrown;
\* cache is the dex cache as the call leaves it, with a method that resolved
\* entered for the index.
FindMethodFromCode(method_idx, this_object, caller_method, access_check, type) ==
  LET resolved_method == DexMethod(caller_method, method_idx)
      cached == [resolved_methods EXCEPT
                   ![<<caller_method, method_idx>>] = resolved_method]
  IN IF resolved_method = NoMethod
       THEN [method |-> NoMethod, cache |-> resolved_methods,
             thrown |-> ThrowNewException(jlNoSuchMethodError,
                          MethodNameFromIndex(caller_method, method_idx))]
     ELSE IF this_object = NULL
       THEN [method |-> NoMethod, cache |-> cached,
             thrown |-> ThrowNewException(jlNullPointerException,
                          MethodNameFromIndex(caller_method, method_idx))]
     ELSE [method |-> Dispatch(resolved_method, this_object, caller_method, type),
           cache |-> cached, thrown |-> NoException]

\* static Method* FindMethodHelper(method_idx, this_object, caller_method,
\* access_check, type).  CHECK (line 208) aborts in every build; DCHECK (line
\* 212) aborts in a debug build and is compiled out of a release build, so a
\* call in which it fails either aborts or returns the method.
FindMethodHelper(op, t, method_idx, this_object, caller_method, access_check, type) ==
  /\ Callable(t)
  /\ LET fast == FindMethodFast(method_idx, this_object, caller_method,
                                access_check, type)
         slow == FindMethodFromCode(method_idx, this_object, caller_method,
                                    access_check, type)
         method == IF fast # NoMethod THEN fast ELSE slow.method
         after == IF fast = NoMethod /\ slow.thrown # NoException
                    THEN slow.thrown ELSE exception[t]
         ret == [Returned(op, t) EXCEPT !.idx = method_idx, !.obj = this_object,
                                        !.referrer = caller_method, !.kind = type,
                                        !.before = NoException]
     IN /\ resolved_methods' = IF fast # NoMethod THEN resolved_methods
                               ELSE slow.cache
        /\ exception' = [exception EXCEPT ![t] = after]
        /\ IF method = NoMethod
             THEN IF after.ref # NULL
                    THEN /\ last' = [ret EXCEPT !.path = "fail", !.ret = 0]
                         /\ UNCHANGED aborted
                    ELSE /\ aborted' = TRUE
                         /\ UNCHANGED last
             ELSE \/ /\ last' = [ret EXCEPT
                                  !.path = IF fast # NoMethod THEN "fast" ELSE "slow",
                                  !.ret = 1, !.method = method]
                     /\ UNCHANGED aborted
                  \/ /\ after.ref # NULL
                     /\ aborted' = TRUE
                     /\ UNCHANGED last
  /\ UNCHANGED <<stackVars, dexVars, syncVars, resolved_fields, storage>>

art_find_interface_method_from_code(t, method_idx, this_object, referrer) ==
  FindMethodHelper("art_find_interface_method_from_code", t, method_idx,
                   this_object, referrer, TRUE, "kInterface")

art_find_virtual_method_from_code(t, method_idx, this_object, referrer) ==
  FindMethodHelper("art_find_virtual_method_from_code", t, method_idx,
                   this_object, referrer, TRUE, "kVirtual")

art_find_super_method_from_code(t, method_idx, this_object, referrer) ==
  FindMethodHelper("art_find_super_method_from_code", t, method_idx,
                   this_object, referrer, TRUE, "kSuper")

----------------------------------------------------------------------------
(* Runtime support function lookup.                                        *)
(* A name is a C string: the sequence of its character codes.              *)

Chars == {1, 2}
AllNames == {<<c>> : c \in Chars} \cup {<<c, d>> : c \in Chars, d \in Chars}

RECURSIVE strcmp(_, _)
\* strcmp: the sign of the first difference; a proper prefix is smaller.
strcmp(lhs, rhs) ==
  IF lhs = <<>> /\ rhs = <<>> THEN 0
  ELSE IF lhs = <<>> THEN -1
  ELSE IF rhs = <<>> THEN 1
  ELSE IF Head(lhs) < Head(rhs) THEN -1
  ELSE IF Head(lhs) > Head(rhs) THEN 1
  ELSE strcmp(Tail(lhs), Tail(rhs))

strlen(str) == Len(str)

\* CStringComparator::operator()
CStringComparator(lhs, rhs) == strcmp(lhs, rhs) < 0

RECURSIVE lower_bound(_, _, _)
\* std::lower_bound(names_begin, names_end, name, CStringComparator()) over
\* names[first .. first + count - 1]: the first position not less than name.
lower_bound(first, count, name) ==
  IF count <= 0 THEN first
  ELSE LET step == count \div 2
           it == first + step
       IN IF CStringComparator(names[it], name)
            THEN lower_bound(it + 1, count - (step + 1), name)
            ELSE lower_bound(first, step, name)

\* funcs[i]: the address of the helper that names[i] names.
funcs(i) == 100 + i

\* art_find_compiler_runtime_func without the comparison of line 513.
art_find_compiler_runtime_func_NoCompare(name) ==
  LET num_entries == Len(names)
      name_lbound_ptr == lower_bound(1, num_entries, name)
  IN IF name_lbound_ptr < 1 + num_entries
       THEN funcs(name_lbound_ptr)
       ELSE NULL

\* static void* art_find_compiler_runtime_func(char const* name)
art_find_compiler_runtime_func(name) ==
  LET num_entries == Len(names)
      name_lbound_ptr == lower_bound(1, num_entries, name)
  IN IF name_lbound_ptr < 1 + num_entries /\ strcmp(names[name_lbound_ptr], name) = 0
       THEN funcs(name_lbound_ptr)
       ELSE NULL

\* One func_entry_t of tab: { #NAME, sizeof(#NAME) - 1, NAME }.
func_entry_t(name, i) == [name |-> name, name_len |-> Len(name), addr |-> 200 + i]

RECURSIVE RuntimeSupportScan(_, _, _)
\* art_find_runtime_support_func, lines 548-554: the linear scan from entry i.
RuntimeSupportScan(i, name, name_len) ==
  IF i > Len(tab) THEN NULL
  ELSE IF name_len = tab[i].name_len /\ strcmp(name, tab[i].name) = 0
    THEN tab[i].addr
  ELSE RuntimeSupportScan(i + 1, name, name_len)

\* RuntimeSupportFunc scanning the entry-point table before the helper table.
RuntimeSupportFunc_TabFirst(name) ==
  LET result == RuntimeSupportScan(1, name, strlen(name)) IN
  IF result # NULL THEN result
  ELSE art_find_compiler_runtime_func(name)

\* The address art_find_runtime_support_func returns, NULL when it logs the
\* fatal error instead.
RuntimeSupportFunc(name) ==
  LET result == art_find_compiler_runtime_func(name) IN
  IF result # NULL THEN result
  ELSE RuntimeSupportScan(1, name, strlen(name))

\* void* art_find_runtime_support_func(void* context, char const* name)
art_find_runtime_support_func(t, name) ==
  /\ Callable(t)
  /\ LET addr == RuntimeSupportFunc(name) IN
     IF addr # NULL
       THEN /\ last' = [Returned("art_find_runtime_support_func", t) EXCEPT
                          !.name = name, !.ret = addr]
            /\ UNCHANGED aborted
       ELSE /\ aborted' = TRUE
            /\ last' = [Returned("art_find_runtime_support_func", t) EXCEPT
                          !.name = name, !.path = "fatal"]
  /\ UNCHANGED <<exception, stackVars, dexVars, syncVars, heapVars>>

----------------------------------------------------------------------------
(* Thread and monitor: locks, the suspend check, JNI references.           *)

\* The objects compiled code locks.
Objects == {StringObj, IntegerObj}

\* A lock nobody holds: monitors[obj][t] is the number of enters of obj's
\* lock that thread t has not yet matched by an exit.
Unlocked == [t \in Threads |-> 0]

\* Thread::HoldsLock(obj)
HoldsLock(t, obj) == monitors[obj][t] > 0

\* Object::MonitorEnter(thread) goes through: no other thread holds the lock.
CanEnter(t, obj) == \A u \in Threads \ {t} : ~HoldsLock(u, obj)

\* Object::MonitorEnter(thread): the locks after one more enter of the thread.
MonitorEnter(t, obj) ==
  [monitors EXCEPT ![obj][t] = monitors[obj][t] + 1]

\* Object::MonitorExit(thread): the locks after the thread's exit and what the
\* exit throws; an exit by a thread that does not hold the lock changes no
\* lock and throws.
MonitorExit(t, obj) ==
  IF ~HoldsLock(t, obj)
    THEN [monitors |-> monitors,
          thrown |-> ThrowNewException(jlIllegalMonitorStateException,
                                       <<"unlock of unowned monitor">>)]
    ELSE [monitors |-> [monitors EXCEPT ![obj][t] = monitors[obj][t] - 1],
          thrown |-> NoException]

\* art_lock_object_from_code(Object* obj), lines 45-47: the entry.  Compiled
\* code has checked obj for null (line 47) and has handled every exception
\* before the call (line 50).
LockObject_Call(t, obj) ==
  /\ Callable(t)
  /\ obj # NULL
  /\ ~IsExceptionPending(t)
  /\ monitors[obj][t] < MaxHolds
  /\ pc' = [pc EXCEPT ![t] = [Idle EXCEPT !.at = "MonitorEnter", !.obj = obj]]
  /\ UNCHANGED <<exception, stack_begin, stack_end, dexVars, syncVars, heapVars, aborted, last>>

\* LockObject_Enter with a MonitorEnter that does not wait for the lock.
LockObject_NoWait(t) ==
  /\ ~aborted
  /\ pc[t].at = "MonitorEnter"
  /\ monitors' = MonitorEnter(t, pc[t].obj)
  /\ pc' = [pc EXCEPT ![t] = Idle]
  /\ last' = [Returned("art_lock_object_from_code", t) EXCEPT !.obj = pc[t].obj]
  /\ UNCHANGED <<exception, stack_begin, stack_end, dexVars, live, suspend_all, heapVars, aborted>>

\* art_lock_object_from_code, lines 48-52: MonitorEnter blocks until the lock
\* can be entered; the two DCHECKs; the return.
LockObject_Enter(t) ==
  /\ ~aborted
  /\ pc[t].at = "MonitorEnter"
  /\ CanEnter(t, pc[t].obj)
  /\ monitors' = MonitorEnter(t, pc[t].obj)
  /\ IF MonitorEnter(t, pc[t].obj)[pc[t].obj][t] > 0 /\ ~IsExceptionPending(t)
       THEN /\ pc' = [pc EXCEPT ![t] = Idle]
            /\ last' = [Returned("art_lock_object_from_code", t) EXCEPT
                          !.obj = pc[t].obj]
            /\ UNCHANGED aborted
       ELSE /\ aborted' = TRUE
            /\ UNCHANGED <<pc, last>>
  /\ UNCHANGED <<exception, stack_begin, stack_end, dexVars, live, suspend_all, heapVars>>

\* art_unlock_object_from_code with a MonitorExit that releases the lock
\* whoever holds it.
art_unlock_object_from_code_Release(t, obj) ==
  /\ Callable(t)
  /\ obj # NULL
  /\ monitors' = [monitors EXCEPT ![obj] = Unlocked]
  /\ last' = [Returned("art_unlock_object_from_code", t) EXCEPT !.obj = obj]
  /\ UNCHANGED <<exception, stackVars, dexVars, live, suspend_all, heapVars, aborted>>

\* void art_unlock_object_from_code(Object* obj), lines 54-59.
art_unlock_object_from_code(t, obj) ==
  /\ Callable(t)
  /\ obj # NULL
  /\ LET exit == MonitorExit(t, obj)
     IN /\ monitors' = exit.monitors
        /\ exception' = IF exit.thrown # NoException
                          THEN [exception EXCEPT ![t] = exit.thrown]
                          ELSE exception
  /\ last' = [Returned("art_unlock_object_from_code", t) EXCEPT !.obj = obj]
  /\ UNCHANGED <<stackVars, dexVars, live, suspend_all, heapVars, aborted>>

\* art_test_suspend_from_code that does not look at the suspend request.
TestSuspend_NoCheck(t) ==
  /\ Callable(t)
  /\ last' = Returned("art_test_suspend_from_code", t)
  /\ UNCHANGED <<exception, stackVars, dexVars, syncVars, heapVars, aborted>>

\* void art_test_suspend_from_code(), lines 61-64: ThreadList::FullSuspendCheck
\* returns at once when no suspend-all request is pending and suspends the
\* thread otherwise.
TestSuspend_Call(t) ==
  /\ Callable(t)
  /\ IF suspend_all
       THEN /\ pc' = [pc EXCEPT ![t] = [Idle EXCEPT !.at = "FullSuspendCheck",
                                                   !.before = exception[t]]]
            /\ UNCHANGED last
       ELSE /\ last' = [Returned("art_test_suspend_from_code", t) EXCEPT
                          !.path = "running"]
            /\ UNCHANGED pc
  /\ UNCHANGED <<exception, stack_begin, stack_end, dexVars, syncVars, heapVars, aborted>>

\* ThreadList::FullSuspendCheck: the suspended thread goes on once the request
\* is cleared, and art_test_suspend_from_code returns.
TestSuspend_Resume(t) ==
  /\ ~aborted
  /\ pc[t].at = "FullSuspendCheck"
  /\ ~suspend_all
  /\ pc' = [pc EXCEPT ![t] = Idle]
  /\ last' = [Returned("art_test_suspend_from_code", t) EXCEPT
                !.path = "suspended", !.before = pc[t].before]
  /\ UNCHANGED <<exception, stack_begin, stack_end, dexVars, syncVars, heapVars, aborted>>

\* ThreadList::SuspendAll, by the coordinator (debugger, collector).
SuspendAll ==
  /\ ~aborted
  /\ ~suspend_all
  /\ suspend_all' = TRUE
  /\ UNCHANGED <<exception, stackVars, dexVars, live, monitors, heapVars, aborted, last>>

\* ThreadList::ResumeAll, by the coordinator.
ResumeAll ==
  /\ ~aborted
  /\ suspend_all
  /\ suspend_all' = FALSE
  /\ UNCHANGED <<exception, stackVars, dexVars, live, monitors, heapVars, aborted, last>>

\* JNI references: local references to the two lockable objects, and null.
StringRef == 11
IntegerRef == 12
JObjects == {NULL, StringRef, IntegerRef}

\* Thread::DecodeJObject(obj): the object a reference refers to.
DecodeJObject(thread, obj) ==
  CASE obj = StringRef -> StringObj
    [] obj = IntegerRef -> IntegerObj
    [] OTHER -> NULL

\* art_decode_jobject_in_thread without the test of line 424.
art_decode_jobject_in_thread_NoCheck(t, thread, obj) ==
  /\ Callable(t)
  /\ thread \in live
  /\ last' = [Returned("art_decode_jobject_in_thread", t) EXCEPT
                !.thread = thread, !.arg = obj,
                !.before = exception[thread],
                !.ret = DecodeJObject(thread, obj)]
  /\ UNCHANGED <<exception, stackVars, dexVars, syncVars, heapVars, aborted>>

\* Object* art_decode_jobject_in_thread(Thread* thread, jobject obj), lines
\* 423-428, called by worker t.
art_decode_jobject_in_thread(t, thread, obj) ==
  /\ Callable(t)
  /\ thread \in live
  /\ last' = [Returned("art_decode_jobject_in_thread", t) EXCEPT
                !.thread = thread, !.arg = obj,
                !.before = exception[thread],
                !.ret = IF IsExceptionPending(thread)
                          THEN NULL
                          ELSE DecodeJObject(thread, obj)]
  /\ UNCHANGED <<exception, stackVars, dexVars, syncVars, heapVars, aborted>>

----------------------------------------------------------------------------
(* The dex cache under several workers: a static field write and a virtual *)
(* method lookup, in the steps in which they read and write the cache.     *)

\* art_set32_static_from_code, lines 252-257: the fast lookup and, on a hit,
\* the write and the return.
Set32Static_Fast(t, field_idx, referrer, new_value) ==
  /\ Callable(t)
  /\ LET field == FindFieldFast(field_idx, referrer, TRUE, TRUE, 4)
         locals == [Idle EXCEPT !.idx = field_idx, !.referrer = referrer,
                                !.arg = new_value, !.field = field]
     IN IF field = NoField
          THEN /\ pc' = [pc EXCEPT ![t] = [locals EXCEPT !.at = "FindFieldFromCode"]]
               /\ UNCHANGED <<storage, aborted, last>>
          ELSE IF NullReceiver(field, NULL)
            THEN /\ aborted' = TRUE
                 /\ UNCHANGED <<pc, storage, last>>
            ELSE /\ storage' = [storage EXCEPT ![Location(field, NULL)] = new_value]
                 /\ pc' = [pc EXCEPT ![t] = locals]
                 /\ last' = [Returned("art_set32_static_from_code", t) EXCEPT
                               !.idx = field_idx, !.referrer = referrer,
                               !.arg = new_value, !.before = NoException,
                               !.path = "fast", !.ret = 0]
                 /\ UNCHANGED aborted
  /\ UNCHANGED <<exception, stack_begin, stack_end, dexVars, syncVars, resolved_fields, resolved_methods>>

\* Set32Static_Slow with a resolution that enters the field in the dex cache
\* before it has set the field's offset.
Set32Static_SlowTorn(t) ==
  /\ ~aborted
  /\ pc[t].at = "FindFieldFromCode"
  /\ LET slow == FindFieldFromCode(pc[t].idx, pc[t].referrer, TRUE, TRUE, TRUE, 4)
         ret == [Returned("art_set32_static_from_code", t) EXCEPT
                   !.idx = pc[t].idx, !.referrer = pc[t].referrer,
                   !.arg = pc[t].arg, !.before = NoException]
     IN /\ pc' = [pc EXCEPT ![t] = [pc[t] EXCEPT !.at = "idle", !.field = slow.field]]
        /\ IF slow.field # NoField
             THEN /\ resolved_fields' =
                       [resolved_fields EXCEPT ![<<pc[t].referrer, pc[t].idx>>] =
                          [slow.field EXCEPT !.id = 0]]
                  /\ storage' = [storage EXCEPT ![Location(slow.field, NULL)] = pc[t].arg]
                  /\ last' = [ret EXCEPT !.path = "slow", !.ret = 0]
                  /\ UNCHANGED exception
             ELSE /\ exception' = [exception EXCEPT ![t] = slow.thrown]
                  /\ last' = [ret EXCEPT !.path = "fail", !.ret = -1]
                  /\ UNCHANGED <<resolved_fields, storage>>
  /\ UNCHANGED <<stack_begin, stack_end, dexVars, syncVars, resolved_methods, aborted>>

\* art_set32_static_from_code, lines 258-264: the full resolution, which enters
\* the field in the dex cache in one write, then the write and the return.
Set32Static_Slow(t) ==
  /\ ~aborted
  /\ pc[t].at = "FindFieldFromCode"
  /\ LET slow == FindFieldFromCode(pc[t].idx, pc[t].referrer, TRUE, TRUE, TRUE, 4)
         ret == [Returned("art_set32_static_from_code", t) EXCEPT
                   !.idx = pc[t].idx, !.referrer = pc[t].referrer,
                   !.arg = pc[t].arg, !.before = NoException]
     IN /\ resolved_fields' = slow.cache
        /\ pc' = [pc EXCEPT ![t] = [pc[t] EXCEPT !.at = "idle", !.field = slow.field]]
        /\ IF slow.field # NoField
             THEN /\ storage' = [storage EXCEPT ![Location(slow.field, NULL)] = pc[t].arg]
                  /\ last' = [ret EXCEPT !.path = "slow", !.ret = 0]
                  /\ UNCHANGED exception
             ELSE /\ exception' = [exception EXCEPT ![t] = slow.thrown]
                  /\ last' = [ret EXCEPT !.path = "fail", !.ret = -1]
                  /\ UNCHANGED storage
  /\ UNCHANGED <<stack_begin, stack_end, dexVars, syncVars, resolved_methods, aborted>>

\* art_find_virtual_method_from_code, lines 222-226, in FindMethodHelper, lines
\* 203-204 and, on a hit, 212-213: the fast lookup, the DCHECK and the return.
FindVirtualMethod_Fast(t, method_idx, this_object, caller_method) ==
  /\ Callable(t)
  /\ LET method == FindMethodFast(method_idx, this_object, caller_method, TRUE, "kVirtual")
         locals == [Idle EXCEPT !.idx = method_idx, !.obj = this_object,
                                !.referrer = caller_method, !.method = method]
     IN IF method = NoMethod
          THEN /\ pc' = [pc EXCEPT ![t] = [locals EXCEPT !.at = "FindMethodFromCode"]]
               /\ UNCHANGED <<aborted, last>>
          ELSE \/ /\ pc' = [pc EXCEPT ![t] = locals]
                  /\ last' = [Returned("art_find_virtual_method_from_code", t) EXCEPT
                                !.idx = method_idx, !.obj = this_object,
                                !.referrer = caller_method, !.kind = "kVirtual",
                                !.before = NoException, !.path = "fast",
                                !.ret = 1, !.method = method]
                  /\ UNCHANGED aborted
               \/ /\ IsExceptionPending(t)
                  /\ aborted' = TRUE
                  /\ UNCHANGED <<pc, last>>
  /\ UNCHANGED <<exception, stack_begin, stack_end, dexVars, syncVars, heapVars>>

\* FindMethodHelper, lines 205-213: the full resolution, which enters the
\* method in the dex cache in one write, the CHECK or the DCHECK, the return.
FindVirtualMethod_Slow(t) ==
  /\ ~aborted
  /\ pc[t].at = "FindMethodFromCode"
  /\ LET slow == FindMethodFromCode(pc[t].idx, pc[t].obj, pc[t].referrer, TRUE, "kVirtual")
         ret == [Returned("art_find_virtual_method_from_code", t) EXCEPT
                   !.idx = pc[t].idx, !.obj = pc[t].obj,
                   !.referrer = pc[t].referrer, !.kind = "kVirtual",
                   !.before = NoException]
         returns == [pc EXCEPT ![t] = [pc[t] EXCEPT !.at = "idle", !.method = slow.method]]
     IN /\ resolved_methods' = slow.cache
        /\ IF slow.method = NoMethod
             THEN /\ exception' = [exception EXCEPT ![t] = slow.thrown]
                  /\ IF slow.thrown.ref # NULL
                       THEN /\ pc' = returns
                            /\ last' = [ret EXCEPT !.path = "fail", !.ret = 0]
                            /\ UNCHANGED aborted
                       ELSE /\ aborted' = TRUE
                            /\ UNCHANGED <<pc, last>>
             ELSE /\ UNCHANGED exception
                  /\ \/ /\ pc' = returns
                        /\ last' = [ret EXCEPT !.path = "slow", !.ret = 1,
                                               !.method = slow.method]
                        /\ UNCHANGED aborted
                     \/ /\ IsExceptionPending(t)
                        /\ aborted' = TRUE
                        /\ UNCHANGED <<pc, last>>
  /\ UNCHANGED <<stack_begin, stack_end, dexVars, syncVars, resolved_fields, storage>>

----------------------------------------------------------------------------
(* Initial states.                                                         *)

\* One handler of an exception table: address range [lo, hi) and type index.
Handlers ==
  {[lo |-> r[1], hi |-> r[2], type_idx |-> ti] :
     r \in TryRanges, ti \in TypeIdx \cup {kDexNoIndex16}}

RECURSIVE SeqsUpTo(_, _)
\* The sequences over S of length at most n.
SeqsUpTo(S, n) ==
  IF n = 0 THEN {<<>>}
  ELSE LET shorter == SeqsUpTo(S, n - 1)
       IN shorter \cup {Append(q, x) : q \in {r \in shorter : Len(r) = n - 1}, x \in S}

\* A table whose names are in strictly increasing strcmp order.
IsSortedUnique(q) ==
  \A i \in 1 .. Len(q) - 1 : strcmp(q[i], q[i + 1]) < 0

IsUnique(q) ==
  \A i, j \in 1 .. Len(q) : i # j => q[i] # q[j]

\* The sample program the bridge serves where a specification does not draw it.
SampleTable ==
  <<[lo |-> 0, hi |-> 2, type_idx |-> 0], [lo |-> 0, hi |-> 2, type_idx |-> kDexNoIndex16]>>
SampleTypes == [ti \in TypeIdx |-> TypeDescriptor(ti)]
SampleFields ==
  [k \in Referrers \X FieldIdx |->
     [id |-> k[2], is_static |-> (k[2] = 1), is_primitive |-> TRUE, size |-> 4]]
SampleNames == <<<<1>>, <<1, 2>>>>
SampleTab == <<func_entry_t(<<2>>, 1), func_entry_t(<<2, 1>>, 2)>>

InitSync(Workers) ==
  /\ live = Workers
  /\ monitors = [o \in Objects |-> Unlocked]
  /\ suspend_all = FALSE

\* Workers run; a thread that does not run is given no stack.
InitWorkers(Workers, StackBegins) ==
  /\ InitSync(Workers)
  /\ exception = [t \in Threads |-> NoException]
  /\ stack_begin \in {sb \in [Threads -> StackBegins] :
                        \A t \in Threads \ Workers : sb[t] = 0}
  /\ stack_end = [t \in Threads |-> stack_begin[t] + kStackOverflowReservedBytes]
  /\ pc = [t \in Threads |-> Idle]
  /\ aborted = FALSE
  /\ last = NoCall

InitThread(StackBegins) == InitWorkers({"t1"}, StackBegins)

InitHeap ==
  /\ resolved_fields = [k \in Referrers \X FieldIdx |-> NoField]
  /\ storage = [l \in FieldIdx \X ({NULL} \cup FieldReceivers) |-> 0]
  /\ resolved_methods = [k \in Referrers \X MethodIdx |-> NoMethod]

InitTables ==
  /\ names = SampleNames
  /\ tab = SampleTab

Init ==
  /\ InitThread({0})
  /\ InitHeap
  /\ InitTables
  /\ exception_table = SampleTable
  /\ resolved_types = SampleTypes
  /\ dex_fields = SampleFields

----------------------------------------------------------------------------
(* Next-state relations.                                                   *)

NextThrow ==
  \E t \in Threads :
    \/ art_is_exception_pending_from_code(t)
    \/ art_throw_div_zero_from_code(t)
    \/ \E length \in ArrayLengths, index \in ArrayIndexes :
         art_throw_array_bounds_from_code(t, length, index)
    \/ \E method \in Referrers, method_idx \in MethodIdx :
         art_throw_no_such_method_from_code(t, method, method_idx)
    \/ art_throw_null_pointer_exception_from_code(t)
    \/ art_throw_stack_overflow_from_code(t)
    \/ \E obj \in Throwables : art_throw_exception_from_code(t, obj)

NextCatch ==
  \E t \in Threads, dex_pc \in DexPcs : art_find_catch_block_from_code(t, dex_pc)

NextTypeCheck ==
  \E t \in Threads :
    \/ \E dest_type \in CastTypes, src_type \in CastTypes :
         art_is_assignable_from_code(t, dest_type, src_type)
    \/ \E dest_type \in CastTypes, src_type \in CastTypes :
         art_check_cast_from_code(t, dest_type, src_type)
    \/ \E element \in Elements, array \in Arrays :
         art_check_put_array_element_from_code(t, element, array)

NextField ==
  \E t \in Threads, field_idx \in FieldIdx, referrer \in Referrers :
    \/ \E new_value \in Values :
         \/ art_set32_static_from_code(t, field_idx, referrer, new_value)
         \/ art_set64_static_from_code(t, field_idx, referrer, new_value)
         \/ art_set_obj_static_from_code(t, field_idx, referrer, new_value)
    \/ art_get32_static_from_code(t, field_idx, referrer)
    \/ art_get64_static_from_code(t, field_idx, referrer)
    \/ art_get_obj_static_from_code(t, field_idx, referrer)
    \/ \E obj \in FieldReceivers, new_value \in Values :
         \/ art_set32_instance_from_code(t, field_idx, referrer, obj, new_value)
         \/ art_set64_instance_from_code(t, field_idx, referrer, obj, new_value)
         \/ art_set_obj_instance_from_code(t, field_idx, referrer, obj, new_value)
    \/ \E obj \in FieldReceivers :
         \/ art_get32_instance_from_code(t, field_idx, referrer, obj)
         \/ art_get64_instance_from_code(t, field_idx, referrer, obj)
         \/ art_get_obj_instance_from_code(t, field_idx, referrer, obj)

NextMethod ==
  \E t \in Threads, method_idx \in MethodIdx, this_object \in Receivers,
     referrer \in Referrers :
    \/ art_find_interface_method_from_code(t, method_idx, this_object, referrer)
    \/ art_find_virtual_method_from_code(t, method_idx, this_object, referrer)
    \/ art_find_super_method_from_code(t, method_idx, this_object, referrer)

NextLookup ==
  \E t \in Threads, name \in AllNames : art_find_runtime_support_func(t, name)

NextMonitor ==
  \E t \in Threads :
    \/ \E obj \in Objects : LockObject_Call(t, obj)
    \/ LockObject_Enter(t)
    \/ \E obj \in Objects : art_unlock_object_from_code(t, obj)

NextSuspend ==
  \/ \E t \in Threads : TestSuspend_Call(t)
  \/ \E t \in Threads : TestSuspend_Resume(t)
  \/ SuspendAll
  \/ ResumeAll

NextDecode ==
  \E t \in Threads, thread \in Threads, obj \in JObjects :
    art_decode_jobject_in_thread(t, thread, obj)

Next ==
  \/ NextThrow
  \/ NextCatch
  \/ NextTypeCheck
  \/ NextField
  \/ NextMethod
  \/ NextLookup
  \/ NextMonitor
  \/ NextSuspend
  \/ NextDecode

\* The whole bridge, serving the sample program.
Spec == Init /\ [][Next]_vars

\* Exception dispatch and type checks, for every placement of the stack.
NextExc == NextThrow \/ NextCatch \/ NextTypeCheck

InitExc ==
  /\ InitThread(0 .. MaxStackBegin)
  /\ InitHeap
  /\ InitTables
  /\ exception_table = SampleTable
  /\ resolved_types = SampleTypes
  /\ dex_fields = SampleFields

SpecExc == InitExc /\ [][NextExc]_vars

\* Catch-block search over every exception table, program location, pending
\* exception and state of the dex cache.
PendingExceptions ==
  {ThrowNewException(jlArithmeticException, <<"divide by zero">>),
   ThrowNewException(jlStackOverflowError, <<>>),
   SetException(ErrorObj), SetException(ThrowableObj)}

InitCatch ==
  /\ InitThread({0})
  /\ InitHeap
  /\ InitTables
  /\ dex_fields = SampleFields
  /\ exception_table \in SeqsUpTo(Handlers, MaxHandlers)
  /\ resolved_types \in {rt \in [TypeIdx -> Classes \cup {NoClass}] :
                           \A ti \in TypeIdx : rt[ti] \in {NoClass, TypeDescriptor(ti)}}

PendingThrown ==
  /\ last = NoCall
  /\ \E t \in live, e \in PendingExceptions :
       /\ exception' = [exception EXCEPT ![t] = e]
       /\ last' = [NoCall EXCEPT !.op = "throw", !.t = t]
  /\ UNCHANGED <<stackVars, dexVars, syncVars, heapVars, aborted>>

SpecCatch == InitCatch /\ [][PendingThrown \/ NextCatch]_vars

\* Field and method resolution over every constant pool: index 0 names a field
\* of any kind or no field, index 1 names its static 32-bit field.
InitResolve ==
  /\ InitThread({0})
  /\ InitHeap
  /\ InitTables
  /\ exception_table = SampleTable
  /\ resolved_types = SampleTypes
  /\ dex_fields \in {df \in [Referrers \X FieldIdx -> UNION {FieldsOf(i) : i \in FieldIdx} \cup {NoField}] :
                       \A k \in Referrers \X FieldIdx :
                         /\ df[k] \in FieldsOf(k[2]) \cup {NoField}
                         /\ k[2] # 0 => df[k] # NoField}

SpecResolve == InitResolve /\ [][NextField \/ NextMethod]_vars

\* Field access alone, over every constant pool.
SpecField == InitResolve /\ [][NextField]_vars

\* Symbol lookup over every pair of tables.
InitLookup ==
  /\ InitThread({0})
  /\ InitHeap
  /\ exception_table = SampleTable
  /\ resolved_types = SampleTypes
  /\ dex_fields = SampleFields
  /\ names \in {q \in SeqsUpTo(AllNames, MaxNames) : IsSortedUnique(q)}
  /\ \E q \in {r \in SeqsUpTo(AllNames, MaxNames) : IsUnique(r)} :
       tab = [i \in 1 .. Len(q) |-> func_entry_t(q[i], i)]

SpecLookup == InitLookup /\ [][NextLookup]_vars

\* Two workers that lock, pass suspend checks, decode references and throw,
\* and the coordinator that suspends and resumes them.
InitSyncWorkers ==
  /\ InitWorkers(Threads, {0})
  /\ InitHeap
  /\ InitTables
  /\ exception_table = SampleTable
  /\ resolved_types = SampleTypes
  /\ dex_fields = SampleFields

NextSync ==
  \/ NextMonitor
  \/ NextSuspend
  \/ NextDecode
  \/ \E t \in Threads : art_throw_div_zero_from_code(t)

SpecSync == InitSyncWorkers /\ [][NextSync]_vars

\* Two workers that write static fields and resolve virtual methods through
\* the same caller's dex cache, each call in the steps in which it reads and
\* writes the cache.
SpecRace ==
  /\ InitSyncWorkers
  /\ [][\E t \in Threads :
          \/ \E field_idx \in FieldIdx, referrer \in Referrers, new_value \in Values :
               Set32Static_Fast(t, field_idx, referrer, new_value)
          \/ Set32Static_Slow(t)
          \/ \E method_idx \in MethodIdx, this_object \in FieldReceivers, referrer \in Referrers :
               FindVirtualMethod_Fast(t, method_idx, this_object, referrer)
          \/ FindVirtualMethod_Slow(t)]_vars

\* One worker that asks for assignability between throws, locks and writes of
\* a static field.
NextAssign ==
  \/ \E t \in Threads, dest_type \in CastTypes, src_type \in CastTypes :
       art_is_assignable_from_code(t, dest_type, src_type)
  \/ \E t \in Threads : art_throw_div_zero_from_code(t)
  \/ NextMonitor
  \/ \E t \in Threads, referrer \in Referrers :
       art_set32_static_from_code(t, 1, referrer, MaxValue)

SpecAssign == InitExc /\ [][NextAssign]_vars

\* The suspend check and the locks, with the scheduling the thread library
\* gives a suspended thread: it runs again when the request it waits for stays
\* cleared.
SpecSuspend ==
  /\ InitSyncWorkers
  /\ [][NextSuspend \/ NextMonitor]_vars
  /\ \A t \in Threads : WF_vars(TestSuspend_Resume(t))

----------------------------------------------------------------------------
(* Claims: catch-block search (SpecCatch).                                 *)

Min(S) == CHOOSE x \in S : \A y \in S : x <= y

\* The positions of the table whose range covers dex_pc.
CoveringPositions(dex_pc) ==
  {i \in 1 .. Len(exception_table) :
     exception_table[i].lo <= dex_pc /\ dex_pc < exception_table[i].hi}

\* Handler i catches cls going by the type it declares.
DeclaredMatch(i, cls) ==
  \/ exception_table[i].type_idx = kDexNoIndex16
  \/ IsAssignableFrom(TypeDescriptor(exception_table[i].type_idx), cls)

\* Handler i catches cls and its declared type is resolved in the dex cache.
ResolvedMatch(i, cls) ==
  \/ exception_table[i].type_idx = kDexNoIndex16
  \/ /\ resolved_types[exception_table[i].type_idx] # NoClass
     /\ IsAssignableFrom(resolved_types[exception_table[i].type_idx], cls)

\* The zero-based position, among the handlers covering dex_pc, of the first
\* one that Match accepts; -1 when there is none.
FirstMatch(Match(_, _), dex_pc, cls) ==
  LET M == {i \in CoveringPositions(dex_pc) : Match(i, cls)}
  IN IF M = {} THEN -1
     ELSE Cardinality({j \in CoveringPositions(dex_pc) : j < Min(M)})

\* C1, as claimed: the search returns the position, among the handlers covering
\* the location, of the first handler that is catch-all or whose declared type
\* is assignable-from the pending exception's type, and -1 iff there is none.
C1_FirstDeclaredMatch ==
  last.op = "art_find_catch_block_from_code" =>
    last.ret = FirstMatch(DeclaredMatch, last.idx, exception[last.t].cls)

\* C1, amended: the search returns the position, among the handlers covering
\* the location, of the first handler that is catch-all or whose declared type
\* is resolved in the dex cache and assignable-from the pending exception's
\* type, and -1 iff there is no such handler.
C1_FirstResolvedMatch ==
  last.op = "art_find_catch_block_from_code" =>
    /\ last.ret = FirstMatch(ResolvedMatch, last.idx, exception[last.t].cls)
    /\ last.ret = -1 <=>
         ~ \E i \in CoveringPositions(last.idx) :
             ResolvedMatch(i, exception[last.t].cls)

\* C1 witness: two handlers cover the location, the first declares a resolved
\* type that does not catch the pending exception, the second is catch-all,
\* and the search has returned 1.
C1_Witness ==
  /\ last.op = "art_find_catch_block_from_code"
  /\ last.ret = 1
  /\ Len(exception_table) = 2
  /\ CoveringPositions(last.idx) = {1, 2}
  /\ exception_table[1].type_idx # kDexNoIndex16
  /\ resolved_types[exception_table[1].type_idx] # NoClass
  /\ exception_table[2].type_idx = kDexNoIndex16

----------------------------------------------------------------------------
(* Claims: type checks and throws (SpecExc).                               *)

Contains(msg, piece) == \E i \in 1 .. Len(msg) : msg[i] = piece

\* The call that returned last was to op, and its worker has entered no other
\* entry point since.
JustReturned(op) == last.op = op /\ pc[last.t].at = "idle"

\* C2: the cast check leaves a class-cast exception whose message holds both
\* type names exactly when the assignability query answers 0 for the pair, and
\* leaves the pending-exception slot as it found it when the query answers 1,
\* as it does for dest = src.
C2_CastCheck ==
  JustReturned("art_check_cast_from_code") =>
    LET query == IF IsAssignableFrom(last.dest, last.src) THEN 1 ELSE 0
        e == exception[last.t]
    IN /\ query = 0 =>
            /\ e.ref = NewObj
            /\ e.cls = jlClassCastException
            /\ Contains(e.msg, PrettyDescriptor(last.dest))
            /\ Contains(e.msg, PrettyDescriptor(last.src))
       /\ query = 1 => e = last.before
       /\ last.dest = last.src => query = 1

\* C2 witness: a String is cast to Integer while another exception is pending,
\* and the class-cast exception is in the slot.
C2_Witness ==
  /\ last.op = "art_check_cast_from_code"
  /\ last.dest = jlInteger
  /\ last.src = jlString
  /\ last.before.cls = jlArithmeticException
  /\ exception[last.t].cls = jlClassCastException

\* C3: the array-store check never raises for a null element, raises an
\* array-store exception for a non-null element exactly when the array's
\* component type is not assignable-from the element's class, and leaves the
\* pending-exception slot as it found it otherwise.
C3_ArrayStoreCheck ==
  JustReturned("art_check_put_array_element_from_code") =>
    LET e == exception[last.t]
        storable == IsAssignableFrom(GetComponentType(GetClass(last.arg)),
                                     GetClass(last.obj))
    IN IF last.obj # NULL /\ ~storable
         THEN e.ref = NewObj /\ e.cls = jlArrayStoreException
         ELSE e = last.before

\* C3 witness: an Integer has been checked against a String[] and the
\* array-store exception is pending.
C3_Witness ==
  /\ last.op = "art_check_put_array_element_from_code"
  /\ last.obj = IntegerObj
  /\ last.arg = StringArrayObj
  /\ last.before = NoException
  /\ exception[last.t].cls = jlArrayStoreException

\* C8: after a throw entry point the slot holds that entry point's exception,
\* whatever it held before.
C8_ThrowInstalls ==
  LET e == exception[last.t] IN
  /\ JustReturned("art_throw_div_zero_from_code") =>
       e.ref = NewObj /\ e.cls = jlArithmeticException /\ e.msg = <<"divide by zero">>
  /\ JustReturned("art_throw_array_bounds_from_code") =>
       e.ref = NewObj /\ e.cls = jlArrayIndexOutOfBoundsException
  /\ JustReturned("art_throw_no_such_method_from_code") =>
       e.ref = NewObj /\ e.cls = jlNoSuchMethodError
  /\ JustReturned("art_throw_null_pointer_exception_from_code") =>
       e.ref = NewObj /\ e.cls = jlNullPointerException
  /\ JustReturned("art_throw_stack_overflow_from_code") =>
       e.ref = NewObj /\ e.cls = jlStackOverflowError
  /\ JustReturned("art_throw_exception_from_code") =>
       IF last.obj # NULL
         THEN e.ref = last.obj /\ e.cls = GetClass(last.obj)
         ELSE e.ref = NewObj /\ e.cls = jlNullPointerException

\* C8 witness: divide-by-zero has replaced a thrown object in the slot.
C8_Witness ==
  /\ last.op = "art_throw_div_zero_from_code"
  /\ last.before.ref = ErrorObj
  /\ exception[last.t].msg = <<"divide by zero">>

----------------------------------------------------------------------------
(* Claims: symbol lookup (SpecLookup).                                     *)

\* C7: the lookup returns the helper table's address for a name in that table,
\* also when the entry-point table has the name too; otherwise the address of
\* the entry-point table's entry of the same length and characters; otherwise
\* it aborts the process; and it never returns a null address.
C7_LookupOrder ==
  last.op = "art_find_runtime_support_func" =>
    LET inNames == {i \in 1 .. Len(names) : names[i] = last.name}
        inTab == {i \in 1 .. Len(tab) :
                    /\ tab[i].name_len = Len(last.name)
                    /\ tab[i].name = last.name}
    IN /\ inNames # {} =>
            /\ last.path # "fatal"
            /\ \E i \in inNames : last.ret = funcs(i)
       /\ inNames = {} /\ inTab # {} =>
            /\ last.path # "fatal"
            /\ last.ret = tab[Min(inTab)].addr
       /\ inNames = {} /\ inTab = {} => last.path = "fatal" /\ aborted
       /\ last.path # "fatal" => last.ret # NULL /\ ~aborted

\* C7 witness: the name looked up is in both tables and the helper table's
\* address has been returned.
C7_Witness ==
  /\ last.op = "art_find_runtime_support_func"
  /\ \E i \in 1 .. Len(names) : names[i] = last.name /\ last.ret = funcs(i)
  /\ \E i \in 1 .. Len(tab) : tab[i].name = last.name
  /\ ~aborted

----------------------------------------------------------------------------
(* Claims: field and method resolution (SpecField, SpecResolve).           *)

SetOps ==
  {"art_set32_static_from_code", "art_set64_static_from_code",
   "art_set_obj_static_from_code", "art_set32_instance_from_code",
   "art_set64_instance_from_code", "art_set_obj_instance_from_code"}

GetOps ==
  {"art_get32_static_from_code", "art_get64_static_from_code",
   "art_get_obj_static_from_code", "art_get32_instance_from_code",
   "art_get64_instance_from_code", "art_get_obj_instance_from_code"}

FieldOps == SetOps \cup GetOps

\* What the name of each field operation says of the field it accesses.
OpIsStatic(op) ==
  op \in {"art_set32_static_from_code", "art_set64_static_from_code",
          "art_set_obj_static_from_code", "art_get32_static_from_code",
          "art_get64_static_from_code", "art_get_obj_static_from_code"}

OpIsPrimitive(op) ==
  op \notin {"art_set_obj_static_from_code", "art_get_obj_static_from_code",
             "art_set_obj_instance_from_code", "art_get_obj_instance_from_code"}

OpSize(op) ==
  IF op \in {"art_set64_static_from_code", "art_get64_static_from_code",
             "art_set64_instance_from_code", "art_get64_instance_from_code"}
    THEN 8 ELSE 4

\* The two lookups of the field operation that returned last, made again in
\* the state it left.
LastFast ==
  FindFieldFast(last.idx, last.referrer, OpIsPrimitive(last.op),
                last.op \in SetOps, OpSize(last.op))

LastSlow ==
  FindFieldFromCode(last.idx, last.referrer, OpIsStatic(last.op),
                    OpIsPrimitive(last.op), last.op \in SetOps, OpSize(last.op))

LastKey == <<last.referrer, last.idx>>

\* C4, in each state: a field operation takes its failure return (-1 for a
\* set, 0 for a get) only when its fast lookup and its full resolution both
\* yield no field, and then an exception is pending on the caller; a set
\* returns 0 exactly when it has stored the value in the resolved field.
C4_State ==
  last.op \in FieldOps =>
    /\ last.path = "fail" =>
         /\ LastFast = NoField
         /\ LastSlow.field = NoField
         /\ IsExceptionPending(last.t)
         /\ last.ret = IF last.op \in SetOps THEN -1 ELSE 0
    /\ last.op \in SetOps =>
         /\ last.ret \in {0, -1}
         /\ last.ret = 0 <=> last.path # "fail"
         /\ last.ret = 0 =>
              /\ resolved_fields[LastKey] # NoField
              /\ storage[Location(resolved_fields[LastKey], last.obj)] = last.arg

\* C4, in each step: a field operation that takes its failure return has
\* modified no field storage.
C4_Step ==
  last'.op \in FieldOps /\ last'.path = "fail" => storage' = storage

\* C4: the failure and success returns of the twelve field operations.
C4_FieldReturns == []C4_State /\ [][C4_Step]_vars

\* C4 witness: a 32-bit instance write through an index that names no such
\* field has returned -1 with an exception pending.
C4_Witness ==
  /\ last.op = "art_set32_instance_from_code"
  /\ last.path = "fail"
  /\ last.ret = -1
  /\ last.arg = 1
  /\ exception[last.t].cls = jlIncompatibleClassChangeError
  /\ \E l \in DOMAIN storage : storage[l] = 1

\* The field operation of this step has returned (a call that aborts the
\* process leaves no record).
FieldOpReturns == last'.op \in FieldOps /\ last' # last

NextKey == <<last'.referrer, last'.idx>>

\* C5, first part: after a write has succeeded by slow-path resolution, the
\* cache holds for (caller, index) the field the index names.
C5_CacheHolds ==
  last.op \in SetOps /\ last.path = "slow" =>
    /\ resolved_fields[LastKey] # NoField
    /\ resolved_fields[LastKey] = dex_fields[LastKey]

\* C5, second part: a cache entry that holds a field keeps holding that field.
C5_CacheStable ==
  \A k \in DOMAIN resolved_fields :
    resolved_fields[k] # NoField => resolved_fields'[k] = resolved_fields[k]

\* C5 as claimed, third part: the operation that follows the slow-path write on
\* the same (caller, index) is served by the fast path.
C5_EveryLaterOpFast ==
  /\ last.op \in SetOps /\ last.path = "slow"
  /\ FieldOpReturns
  /\ NextKey = LastKey
  => last'.path = "fast"

\* C5 as claimed, fourth part: a read of the same (caller, index) and receiver
\* that follows a write returns the value written.
C5_EveryReadReturnsWritten ==
  /\ last.op \in SetOps /\ last.ret = 0
  /\ last'.op \in GetOps /\ last' # last
  /\ NextKey = LastKey
  /\ last'.obj = last.obj
  => last'.ret = last.arg

\* C5, as claimed: after a write has succeeded by slow-path resolution the cache
\* holds that field and keeps it, every later operation on the same (caller,
\* index) is served by the fast path, and a read of the same receiver returns
\* the last value written.
C5_AsClaimed ==
  /\ []C5_CacheHolds
  /\ [][C5_CacheStable /\ C5_EveryLaterOpFast /\ C5_EveryReadReturnsWritten]_vars

\* An operation has the width and the primitive/reference kind of a field.
OpMatches(op, field) ==
  field.is_primitive = OpIsPrimitive(op) /\ field.size = OpSize(op)

\* C5 amended, third part: an operation on a (caller, index) the cache holds a
\* field for is served by the fast path exactly when it has the width and the
\* primitive/reference kind of that field, whatever its static/instance kind;
\* an operation of another width or kind fails with an exception pending.
C5_MatchingOpFast ==
  FieldOpReturns /\ resolved_fields[NextKey] # NoField =>
    IF OpMatches(last'.op, resolved_fields[NextKey])
      THEN last'.path = "fast"
      ELSE last'.path = "fail" /\ exception'[last'.t].ref # NULL

\* C5 amended, fourth part: field storage changes only at the location a
\* successful write names, a read returns what storage holds at the location
\* it names, and so a read of the width and kind of the write, of the same
\* (caller, index) and receiver, returns the last value written.
C5_WritesOnly ==
  storage' # storage =>
    /\ last'.op \in SetOps /\ last'.ret = 0
    /\ storage' = [storage EXCEPT
                     ![Location(resolved_fields'[NextKey], last'.obj)] = last'.arg]

C5_ReadsStorage ==
  last.op \in GetOps /\ last.path # "fail" =>
    last.ret = storage[Location(resolved_fields[LastKey], last.obj)]

C5_MatchingReadReturnsWritten ==
  /\ last.op \in SetOps /\ last.ret = 0
  /\ last'.op \in GetOps /\ last' # last
  /\ NextKey = LastKey
  /\ last'.obj = last.obj
  /\ OpSize(last'.op) = OpSize(last.op)
  /\ OpIsPrimitive(last'.op) = OpIsPrimitive(last.op)
  => last'.path = "fast" /\ last'.ret = last.arg

\* C5, amended: after a write has succeeded by slow-path resolution the cache
\* holds that field and keeps it; a later operation on the same (caller, index)
\* is served by the fast path exactly when it has the width and the
\* primitive/reference kind of the cached field, and fails with an exception
\* pending otherwise; a read of that width and kind on the same receiver
\* returns the last value written.
C5_CacheReuse ==
  /\ [](C5_CacheHolds /\ C5_ReadsStorage)
  /\ [][/\ C5_CacheStable
        /\ C5_MatchingOpFast
        /\ C5_WritesOnly
        /\ C5_MatchingReadReturnsWritten]_vars

\* C5 witness: a 32-bit instance read has been served by the fast path from
\* the entry a slow-path write left, and has returned the 1 that was written.
C5_Witness ==
  /\ last.op = "art_get32_instance_from_code"
  /\ last.path = "fast"
  /\ last.ret = 1
  /\ last.obj = StringObj
  /\ resolved_fields[LastKey] = dex_fields[LastKey]
  /\ ~resolved_fields[LastKey].is_static
  /\ storage[<<last.idx, IntegerObj>>] = 0

MethodOps ==
  {"art_find_interface_method_from_code", "art_find_virtual_method_from_code",
   "art_find_super_method_from_code"}

\* C10, as claimed: the method resolver returns null only when the fast lookup
\* and the full resolution both fail, and then an exception is pending on the
\* caller; whenever it returns a method, no exception is pending on the caller.
C10_AsClaimed ==
  last.op \in MethodOps =>
    /\ last.ret = 0 =>
         /\ FindMethodFast(last.idx, last.obj, last.referrer, TRUE, last.kind)
              = NoMethod
         /\ FindMethodFromCode(last.idx, last.obj, last.referrer, TRUE,
                               last.kind).method = NoMethod
         /\ IsExceptionPending(last.t)
    /\ last.ret # 0 => ~IsExceptionPending(last.t)

ThrowOps ==
  {"art_throw_div_zero_from_code", "art_throw_array_bounds_from_code",
   "art_throw_no_such_method_from_code",
   "art_throw_null_pointer_exception_from_code",
   "art_throw_stack_overflow_from_code", "art_throw_exception_from_code"}

\* C11, as claimed: a step that changes a pending exception of a worker is a
\* step of a throw entry point of that worker, and leaves an exception
\* pending; the cast check and the array-store check never change a pending
\* exception.
C11_AsClaimed ==
  [][\A t \in Threads :
       (exception[t].ref # NULL /\ exception'[t] # exception[t]) =>
         /\ exception'[t].ref # NULL
         /\ \/ pc'[t].at = "reset"
            \/ last'.op \in ThrowOps /\ last'.t = t]_vars

\* C11, the part that holds: no step empties a slot that holds an exception.
C11_NeverEmptied ==
  [][\A t \in Threads : exception[t].ref # NULL => exception'[t].ref # NULL]_vars

\* C17, as claimed: the field a field operation has accessed, on its fast path
\* or on its slow path, is static exactly when the operation is a static one,
\* and has the operation's width and primitive/reference kind.
C17_AsClaimed ==
  last.op \in FieldOps /\ last.path \in {"fast", "slow"} =>
    /\ resolved_fields[LastKey].is_static = OpIsStatic(last.op)
    /\ OpMatches(last.op, resolved_fields[LastKey])

\* C17, the part that holds: the accessed field has the operation's width and
\* primitive/reference kind on both paths, and the operation's static/instance
\* kind on the slow path.
C17_SlowPathKind ==
  last.op \in FieldOps /\ last.path \in {"fast", "slow"} =>
    /\ OpMatches(last.op, resolved_fields[LastKey])
    /\ last.path = "slow" => resolved_fields[LastKey].is_static = OpIsStatic(last.op)

\* Handler i declares a type the dex cache has not resolved.
Unresolved(i) ==
  /\ exception_table[i].type_idx # kDexNoIndex16
  /\ resolved_types[exception_table[i].type_idx] = NoClass

\* The zero-based position of handler i among the handlers covering dex_pc.
Position(i, dex_pc) == Cardinality({j \in CoveringPositions(dex_pc) : j < i})

\* Handler i is an unresolved handler that the search for cls at dex_pc meets:
\* no handler before it catches cls.
MeetsUnresolved(i, dex_pc, cls) ==
  /\ i \in CoveringPositions(dex_pc)
  /\ Unresolved(i)
  /\ \A j \in CoveringPositions(dex_pc) : j < i => ~ResolvedMatch(j, cls)

\* C18, the result: an unresolved handler the search meets is not the one
\* returned; when a later handler catches the exception, the first such handler
\* is returned with its own position, which counts the unresolved handler; when
\* none does, -1 is returned.
C18_SearchGoesOn ==
  last.op = "art_find_catch_block_from_code" =>
    \A i \in 1 .. Len(exception_table) :
      MeetsUnresolved(i, last.idx, exception[last.t].cls) =>
        LET Later == {k \in CoveringPositions(last.idx) :
                        k > i /\ ResolvedMatch(k, exception[last.t].cls)}
        IN /\ last.ret # Position(i, last.idx)
           /\ Later # {} => /\ last.ret = Position(Min(Later), last.idx)
                            /\ last.ret > Position(i, last.idx)
           /\ Later = {} => last.ret = -1

\* C18, the state: a search that meets an unresolved handler changes neither
\* the pending exception nor any other state of the runtime.
C18_StateKept ==
  /\ last'.op = "art_find_catch_block_from_code"
  /\ last' # last
  /\ \E i \in 1 .. Len(exception_table) :
       MeetsUnresolved(i, last'.idx, exception[last'.t].cls)
  => UNCHANGED <<exception, stackVars, dexVars, syncVars, heapVars, aborted>>

\* C18: during catch-block search an unresolved handler is passed over and
\* counted, and meeting it changes no state.
C18_UnresolvedSkipped == []C18_SearchGoesOn /\ [][C18_StateKept]_vars

\* C18 witness: the first handler covering the location declares a type that
\* would catch the pending exception but is unresolved, the second is
\* catch-all, and the search has returned 1.
C18_Witness ==
  /\ last.op = "art_find_catch_block_from_code"
  /\ last.ret = 1
  /\ CoveringPositions(last.idx) = {1, 2}
  /\ MeetsUnresolved(1, last.idx, exception[last.t].cls)
  /\ IsAssignableFrom(TypeDescriptor(exception_table[1].type_idx),
                      exception[last.t].cls)
  /\ exception_table[2].type_idx = kDexNoIndex16

\* C19: over a helper table sorted by name with unique names, the helper
\* lookup yields, for every name in the table, the address registered at the
\* position of that name, and NULL for every name not in the table; the
\* address a symbol lookup returns for a name in the table is that address.
C19_HelperLookup ==
  /\ \A name \in AllNames :
       LET at == {i \in 1 .. Len(names) : names[i] = name}
       IN IF at = {}
            THEN art_find_compiler_runtime_func(name) = NULL
            ELSE \A i \in at : art_find_compiler_runtime_func(name) = funcs(i)
  /\ last.op = "art_find_runtime_support_func"
       /\ art_find_compiler_runtime_func(last.name) # NULL =>
         last.ret = art_find_compiler_runtime_func(last.name)

\* C19 witness: the helper table has two names; a name that sorts before its
\* first entry and a name that sorts after its last entry are not found, the
\* name looked up last is its second entry and that entry's address has been
\* returned.
C19_Witness ==
  /\ Len(names) = 2
  /\ last.op = "art_find_runtime_support_func"
  /\ last.name = names[2]
  /\ last.ret = funcs(2)
  /\ \E lo, hi \in AllNames :
       /\ strcmp(lo, names[1]) < 0
       /\ strcmp(names[2], hi) < 0
       /\ art_find_compiler_runtime_func(lo) = NULL
       /\ art_find_compiler_runtime_func(hi) = NULL

----------------------------------------------------------------------------
(* Claims: locks, suspension and references (SpecSync, SpecSuspend).       *)

\* C20, in each state: the call has returned NULL when the worker it was given
\* had an exception pending, and the object the reference decodes to
\* otherwise; that worker's slot holds what it held when the call was made.
C20_Returns ==
  last.op = "art_decode_jobject_in_thread" =>
    /\ last.before.ref # NULL => last.ret = NULL
    /\ last.before.ref = NULL => last.ret = DecodeJObject(last.thread, last.arg)
    /\ exception[last.thread] = last.before

\* C20, in each step: a call changes no worker's pending-exception slot.
C20_SlotKept ==
  last'.op = "art_decode_jobject_in_thread" /\ last' # last =>
    exception' = exception

\* C20: art_decode_jobject_in_thread returns NULL whenever the given worker
\* has an exception pending and the decoded object otherwise, and leaves the
\* pending-exception slot as it is.
C20_DecodeInThread == []C20_Returns /\ [][C20_SlotKept]_vars

\* C20 witness: a worker without a pending exception has asked for a reference
\* to the String in the other worker, which has an exception pending, and has
\* got NULL.
C20_Witness ==
  /\ last.op = "art_decode_jobject_in_thread"
  /\ last.thread # last.t
  /\ last.arg = StringRef
  /\ DecodeJObject(last.thread, last.arg) = StringObj
  /\ IsExceptionPending(last.thread)
  /\ ~IsExceptionPending(last.t)
  /\ last.ret = NULL

\* C14, an exit by worker t that does not hold obj's lock: no lock changes
\* and a runtime exception is pending on t afterwards.
ExitByOther(t, obj) ==
  /\ monitors' = monitors
  /\ exception'[t].ref # NULL
  /\ IsSubClass(exception'[t].cls, jlRuntimeException)

\* C14, an exit by the holder t: one enter of t is undone, no other hold
\* changes, nothing is thrown, and the lock is free afterwards exactly when
\* that was the last enter t had not matched.
ExitByHolder(t, obj) ==
  /\ monitors'[obj][t] = monitors[obj][t] - 1
  /\ \A o \in Objects, u \in Threads :
       <<o, u>> # <<obj, t>> => monitors'[o][u] = monitors[o][u]
  /\ (\A u \in Threads : monitors'[obj][u] = 0) <=> monitors[obj][t] = 1
  /\ exception' = exception

\* C14: art_unlock_object_from_code by a worker that does not hold the lock
\* leaves every hold as it is and a runtime exception pending on the caller;
\* by the holder it undoes one enter, and the lock becomes free only with the
\* exit that matches the holder's first enter.
C14_Unlock ==
  [][/\ last'.op = "art_unlock_object_from_code"
      /\ art_unlock_object_from_code(last'.t, last'.obj)
      => IF HoldsLock(last'.t, last'.obj)
           THEN ExitByHolder(last'.t, last'.obj)
           ELSE ExitByOther(last'.t, last'.obj)]_vars

\* C14 witness: a worker has tried to unlock an object the other worker holds
\* twice over, and has an IllegalMonitorStateException pending.
C14_Witness ==
  /\ last.op = "art_unlock_object_from_code"
  /\ \E u \in Threads \ {last.t} : monitors[last.obj][u] = 2
  /\ monitors[last.obj][last.t] = 0
  /\ last.before = NoException
  /\ exception[last.t].cls = jlIllegalMonitorStateException

\* C13, the return: the worker whose art_lock_object_from_code returned last
\* holds the object's lock and has no exception pending, and no assertion of
\* the entry point has failed.
C13_HoldsOnReturn ==
  last.op = "art_lock_object_from_code" =>
    /\ HoldsLock(last.t, last.obj)
    /\ ~IsExceptionPending(last.t)
    /\ ~aborted

\* C13, mutual exclusion: no two different workers hold the same object's lock.
C13_MutualExclusion ==
  \A obj \in Objects, t \in Threads, u \in Threads :
    HoldsLock(t, obj) /\ HoldsLock(u, obj) => t = u

\* C13, re-entrance: a worker that is entering a lock it already holds can
\* enter at once.
C13_Reentrant ==
  \A t \in Threads :
    pc[t].at = "MonitorEnter" /\ HoldsLock(t, pc[t].obj) =>
      ENABLED LockObject_Enter(t)

Suspended(t) == pc[t].at = "FullSuspendCheck"

\* C15, in each step: a step in which a worker returns from
\* art_test_suspend_from_code is taken with no suspend-all request pending,
\* and a call made with no request pending returns in the same step.
C15_Step ==
  \A t \in Threads :
    /\ (TestSuspend_Call(t) \/ TestSuspend_Resume(t)) /\ pc'[t].at = "idle" =>
         /\ ~suspend_all
         /\ last'.op = "art_test_suspend_from_code"
         /\ last'.t = t
    /\ TestSuspend_Call(t) /\ ~suspend_all => pc'[t].at = "idle"
    /\ TestSuspend_Call(t) /\ suspend_all => Suspended(t)'

\* C15: a worker that calls art_test_suspend_from_code while a suspend-all
\* request is pending does not return before the request is cleared; once the
\* request is cleared the worker returns unless a new request is made first;
\* with no request pending the call returns at once.
C15_SuspendCheck ==
  /\ [][C15_Step]_vars
  /\ \A t \in Threads :
       (Suspended(t) /\ ~suspend_all) ~> (pc[t].at = "idle" \/ suspend_all)

\* C15 witness: a worker has returned from a suspend check in which it was
\* suspended, the request it waited for being cleared.
C15_Witness ==
  /\ last.op = "art_test_suspend_from_code"
  /\ last.path = "suspended"
  /\ pc[last.t].at = "idle"
  /\ ~suspend_all

\* C16, the result: 1 when dest is assignable-from src, 0 otherwise.
C16_Result ==
  last.op = "art_is_assignable_from_code" =>
    /\ last.ret \in {0, 1}
    /\ last.ret = 1 <=> IsAssignableFrom(last.dest, last.src)

\* C16, the state: a call changes neither a pending-exception slot, nor a
\* lock, nor field storage, nor a resolution cache, and fails no assertion.
C16_StateKept ==
  /\ last'.op = "art_is_assignable_from_code"
  /\ art_is_assignable_from_code(last'.t, last'.dest, last'.src)
  => /\ exception' = exception
     /\ monitors' = monitors
     /\ storage' = storage
     /\ resolved_fields' = resolved_fields
     /\ resolved_methods' = resolved_methods
     /\ resolved_types' = resolved_types
     /\ aborted' = aborted

\* C16: art_is_assignable_from_code returns 1 when dest is assignable-from
\* src and 0 otherwise, and changes no state, for every pair of types.
C16_IsAssignable == []C16_Result /\ [][C16_StateKept]_vars

\* C16 witness: a worker that has an exception pending and holds a lock, after
\* a static field has been written and cached, has asked whether String is
\* assignable-from Object and has got 0, all of that being as it was.
C16_Witness ==
  /\ last.op = "art_is_assignable_from_code"
  /\ last.dest = jlString
  /\ last.src = jlObject
  /\ last.ret = 0
  /\ exception[last.t] = last.before
  /\ IsExceptionPending(last.t)
  /\ \E obj \in Objects : HoldsLock(last.t, obj)
  /\ \E k \in DOMAIN resolved_fields :
       /\ resolved_fields[k] # NoField
       /\ storage[Location(resolved_fields[k], NULL)] = MaxValue

----------------------------------------------------------------------------
(* Claims: concurrent resolution (SpecRace).                               *)

\* The key of the dex cache that worker t's call is about.
KeyOf(t) == <<pc[t].referrer, pc[t].idx>>

\* Worker t's last call was a field write (a method lookup) that has looked
\* into the dex cache.
InFieldOp(t) == pc[t].referrer # "" /\ pc[t].obj = NULL
InMethodOp(t) == pc[t].referrer # "" /\ pc[t].obj # NULL

\* C12, the cache: every entry is unresolved or is the whole descriptor the
\* index names.
C12_NoPartialEntry ==
  /\ \A k \in DOMAIN resolved_fields : resolved_fields[k] \in {NoField, dex_fields[k]}
  /\ \A k \in DOMAIN resolved_methods :
       resolved_methods[k] \in {NoMethod, DexMethod(k[1], k[2])}

\* C12, the workers: what a worker has got from the cache or from resolution
\* is nothing or the whole descriptor of its index, so that all workers on
\* the same index use the same descriptor.
C12_SameDescriptor ==
  /\ \A t \in Threads :
       /\ InFieldOp(t) => pc[t].field \in {NoField, dex_fields[KeyOf(t)]}
       /\ InMethodOp(t) =>
            pc[t].method \in
              {NoMethod, Dispatch(DexMethod(pc[t].referrer, pc[t].idx), pc[t].obj,
                                  pc[t].referrer, "kVirtual")}
  /\ \A t \in Threads, u \in Threads :
       /\ InFieldOp(t) /\ InFieldOp(u) /\ KeyOf(t) = KeyOf(u)
          /\ pc[t].field # NoField /\ pc[u].field # NoField
          => pc[t].field = pc[u].field
       /\ InMethodOp(t) /\ InMethodOp(u) /\ KeyOf(t) = KeyOf(u)
          /\ pc[t].obj = pc[u].obj
          /\ pc[t].method # NoMethod /\ pc[u].method # NoMethod
          => pc[t].method = pc[u].method

\* C12, duplicate resolution: a worker that resolves an index another worker
\* has resolved meanwhile leaves the cache as it is and uses the cached
\* descriptor.
C12_Duplicate ==
  \A t \in Threads :
    /\ pc[t].at = "FindFieldFromCode" /\ pc'[t].at = "idle"
       /\ resolved_fields[KeyOf(t)] # NoField
       => /\ resolved_fields' = resolved_fields
          /\ pc'[t].field = resolved_fields[KeyOf(t)]
    /\ pc[t].at = "FindMethodFromCode" /\ pc'[t].at = "idle"
       /\ resolved_methods[KeyOf(t)] # NoMethod
       => resolved_methods' = resolved_methods

====
